---------------------------- MODULE Spec2Model ----------------------------
(***************************************************************************)
(* State-machine model of RhythmPlanner (src/src/lib/googleCalendar.ts,   *)
(* lines 153-1338, the "Phase 3 Complete" planner) together with the       *)
(* calendar gateway it drives (GoogleCalendarService, lines 18-151).       *)
(*                                                                         *)
(* Time is an integer number of seconds since local midnight of day 0      *)
(* (the code's millisecond instants, at one-second resolution).  Every     *)
(* handler runs to completion in one step, up to the point where it        *)
(* awaits a gateway call; the continuation after the await is a separate   *)
(* step (resolve or reject of the pending call).                           *)
(***************************************************************************)
EXTENDS Integers, Sequences, FiniteSets, TLC

VARIABLES
  config,               \* this.config
  preferences,          \* this.preferences
  suggestions,          \* this.suggestions (array order kept)
  checkIns,             \* this.checkIns
  currentRhythmState,   \* this.currentRhythmState
  lastFocusStart,       \* this.lastFocusStart (NoTime = null)
  calendarService,      \* this.calendarService !== null
  calendarEvents,       \* this.calendarEvents (cached snapshot)
  autoScheduledEvents,  \* this.autoScheduledEvents: set of <<suggestionId, eventId>>
  clock,                \* Date.now()
  nextId,               \* next value generateId() hands out
  pending,              \* gateway calls awaited, each with its suspended continuation
  gateway,              \* events held by the external calendar
  nextEventId,          \* next id the external calendar assigns
  audit,                \* auditLog entries written by the last step
  issued,               \* gateway calls issued by the last step
  notified,             \* ids last delivered to the suggestion listeners
  outcome,              \* what the handler run by the last step returned
  slotResult,           \* last slot or conflict query of a caller and its answer
  settled,              \* how the gateway answered in the last step: none, resolved, rejected
  added,                \* suggestions handed to addSuggestion by the last step
  reminded,             \* anchor ids a reminder was added for, while they stay within lead time
  stepsLeft             \* operations the caller may still invoke

vars == <<config, preferences, suggestions, checkIns, currentRhythmState,
          lastFocusStart, calendarService, calendarEvents, autoScheduledEvents,
          clock, nextId, pending, gateway, nextEventId, audit, issued, notified,
          outcome, slotResult, settled, added, reminded, stepsLeft>>

-----------------------------------------------------------------------------
(* Clock and interval utilities *)

Min(m) == m * 60
Hour(h) == h * 3600
DayOf(t) == t \div 86400
NoTime == -1

getHours(t) == (t % 86400) \div 3600
getMinutes(t) == (t % 3600) \div 60
getSeconds(t) == t % 60

\* now.setHours(h, 0, 0, 0)
setHours(t, h) == DayOf(t) * 86400 + Hour(h)

sameDay(a, b) == DayOf(a) = DayOf(b)

\* mutant: intervals that touch at a boundary count as overlapping
timeRangesOverlap_Closed(start1, end1, start2, end2) == start1 <= end2 /\ end1 >= start2

timeRangesOverlap(start1, end1, start2, end2) == start1 < end2 /\ end1 > start2

SeqMax(s) == CHOOSE x \in {s[i] : i \in 1..Len(s)} : \A j \in 1..Len(s) : s[j] <= x

RECURSIVE SelectSeqBy(_, _)
\* Array.prototype.filter with a predicate given as a set of accepted elements' indexes
SelectSeqBy(s, keep) ==
  IF s = <<>> THEN <<>>
  ELSE LET rest == SelectSeqBy(Tail(s), {i - 1 : i \in keep \ {1}})
       IN IF 1 \in keep THEN <<Head(s)>> \o rest ELSE rest

Filter(s, P(_)) == SelectSeqBy(s, {i \in 1..Len(s) : P(s[i])})

\* Array.prototype.find: index of the first match, 0 when none
FindIndex(s, P(_)) ==
  IF \E i \in 1..Len(s) : P(s[i])
  THEN CHOOSE i \in 1..Len(s) : P(s[i]) /\ \A j \in 1..(i - 1) : ~P(s[j])
  ELSE 0

-----------------------------------------------------------------------------
(* Configuration *)

DEFAULT_CONFIG ==
  [ focusBreakThreshold |-> 90,
    defaultBreakDuration |-> 15,
    anchorReminderLeadTime |-> 15,
    autoScheduleEnabled |-> FALSE,
    autoScheduleBreaks |-> FALSE,
    autoScheduleFocusBlocks |-> FALSE,
    requireConfirmation |-> TRUE,
    maxActiveSuggestions |-> 5,
    workingHours |-> [start |-> 9, end |-> 18],
    minimumEventGap |-> 5,
    defaultFocusBlockDuration |-> 50,
    enableFrictionDetection |-> TRUE,
    frictionThreshold |-> 3 ]

DEFAULT_PREFERENCES ==
  [ autoScheduleEnabled |-> FALSE,
    autoScheduleBreaks |-> FALSE,
    autoScheduleFocusBlocks |-> FALSE,
    requireConfirmation |-> TRUE,
    focusBreakThreshold |-> 90,
    defaultBreakDuration |-> 15,
    defaultFocusBlockDuration |-> 50,
    workingHoursStart |-> 9,
    workingHoursEnd |-> 18,
    enableFrictionDetection |-> TRUE,
    notificationsEnabled |-> TRUE ]

\* { ...a, ...b }: the fields of b override those of a
Merge(a, b) ==
  [k \in DOMAIN a |-> IF k \in DOMAIN b THEN b[k] ELSE a[k]]

syncConfigWithPreferences(cfg, prefs) ==
  [cfg EXCEPT
     !.autoScheduleEnabled = prefs.autoScheduleEnabled,
     !.autoScheduleBreaks = prefs.autoScheduleBreaks,
     !.autoScheduleFocusBlocks = prefs.autoScheduleFocusBlocks,
     !.requireConfirmation = prefs.requireConfirmation,
     !.focusBreakThreshold = prefs.focusBreakThreshold,
     !.defaultBreakDuration = prefs.defaultBreakDuration,
     !.defaultFocusBlockDuration = prefs.defaultFocusBlockDuration,
     !.workingHours = [start |-> prefs.workingHoursStart, end |-> prefs.workingHoursEnd],
     !.enableFrictionDetection = prefs.enableFrictionDetection]

-----------------------------------------------------------------------------
(* Conflict detector and slot finder *)

\* the synthetic conflict entries of the check-ins found: 30 minutes from each slot
checkInConflicts(hit) ==
  [i \in 1..Len(hit) |->
     [id |-> hit[i].id, start |-> hit[i].slot, end |-> hit[i].slot + Min(30)]]

\* mutant: the check-in loop is missing
checkForConflicts_EventsOnly(events, cis, start, end) ==
  LET evHit(e) == timeRangesOverlap(start, end, e.start, e.end)
  IN Filter(events, evHit)

\* The conflicts array: cached calendar events first, then one synthetic
\* 30-minute entry per check-in that is not done.
checkForConflicts(events, cis, start, end) ==
  LET evHit(e) == timeRangesOverlap(start, end, e.start, e.end)
      ciHit(c) == ~c.done /\ timeRangesOverlap(start, end, c.slot, c.slot + Min(30))
  IN Filter(events, evHit) \o checkInConflicts(Filter(cis, ciHit))

NoSlot == [start |-> NoTime, end |-> NoTime, available |-> FALSE]

\* Math.ceil(now.getMinutes() / 5) * 5, then setMinutes / setSeconds(0)
RoundUp5(t) == (t - (t % 3600)) + Min(((getMinutes(t) + 4) \div 5) * 5)

RECURSIVE SlotSearch(_, _, _, _, _, _)

\* the loop body from the conflict check on: return the candidate, or move searchTime
SlotStep(cfg, events, cis, durationMinutes, searchTime, maxSearchTime, slotEnd, conflictingEvents) ==
  IF ~(Len(conflictingEvents) > 0)
  THEN [start |-> searchTime, end |-> slotEnd, available |-> TRUE]
  ELSE IF Len(conflictingEvents) > 0
  THEN SlotSearch(cfg, events, cis, durationMinutes,
         SeqMax([i \in 1..Len(conflictingEvents) |-> conflictingEvents[i].end])
           + Min(cfg.minimumEventGap),
         maxSearchTime)
  ELSE SlotSearch(cfg, events, cis, durationMinutes, searchTime + Min(15), maxSearchTime)

\* the loop body for the candidate [searchTime, slotEnd): the working-hours bound first
SlotCandidate(cfg, events, cis, durationMinutes, searchTime, maxSearchTime, slotEnd) ==
  IF getHours(slotEnd) > cfg.workingHours.end
     \/ (getHours(slotEnd) = cfg.workingHours.end /\ getMinutes(slotEnd) > 0)
  THEN NoSlot
  ELSE SlotStep(cfg, events, cis, durationMinutes, searchTime, maxSearchTime, slotEnd,
                checkForConflicts(events, cis, searchTime, slotEnd))

\* the while loop of findNextAvailableSlot
SlotSearch(cfg, events, cis, durationMinutes, searchTime, maxSearchTime) ==
  IF ~(searchTime < maxSearchTime) THEN NoSlot
  ELSE SlotCandidate(cfg, events, cis, durationMinutes, searchTime, maxSearchTime,
                     searchTime + Min(durationMinutes))

findNextAvailableSlot(cfg, events, cis, durationMinutes, afterTime) ==
  LET workStart == cfg.workingHours.start
      workEnd == cfg.workingHours.end
      rounded == RoundUp5(afterTime)
      now == IF getHours(rounded) < workStart THEN setHours(rounded, workStart) ELSE rounded
      maxSearchTime == setHours(now, workEnd)
  IN SlotSearch(cfg, events, cis, durationMinutes, now, maxSearchTime)

-----------------------------------------------------------------------------
(* Planner record threaded through one handler run.  p carries the planner  *)
(* fields plus what the handler writes to its collaborators.                *)

Entry(cat, sev) == [category |-> cat, severity |-> sev]

\* auditLog.addEntry(category, severity, ...)
Log(p, cat, sev) == [p EXCEPT !.audit = Append(@, Entry(cat, sev))]

Ret(op, kind, id) == [op |-> op, kind |-> kind, id |-> id]

Return(p, op, kind, id) == [p EXCEPT !.outcome = Ret(op, kind, id)]

NoSuggestion ==
  [ id |-> 0, type |-> "NONE", priority |-> "low", actionType |-> "none",
    anchorId |-> 0, start |-> NoTime, end |-> NoTime, durationMinutes |-> 0,
    createdAt |-> NoTime, expiresAt |-> NoTime,
    dismissed |-> FALSE, autoScheduled |-> FALSE, calendarEventId |-> 0 ]

\* a PlannerSuggestion literal as the policies build it
NewSuggestion(id, type, priority, actionType, anchorId, slot, durationMinutes, createdAt, expiresAt) ==
  [ id |-> id, type |-> type, priority |-> priority, actionType |-> actionType,
    anchorId |-> anchorId, start |-> slot.start, end |-> slot.end,
    durationMinutes |-> durationMinutes,
    createdAt |-> createdAt, expiresAt |-> expiresAt,
    dismissed |-> FALSE, autoScheduled |-> FALSE, calendarEventId |-> 0 ]

\* a gateway call in flight; day is the day listEvents was asked for (0 otherwise)
Call(call, kind, s, suggestionId, eventId, op, day) ==
  [ call |-> call, kind |-> kind, suggestion |-> s,
    suggestionId |-> suggestionId, eventId |-> eventId, op |-> op, day |-> day ]

\* the gateway call is made, and the async function suspends on its promise
Await(p, c) ==
  [p EXCEPT !.pending = Append(@, c),
            !.issued = Append(@, c),
            !.outcome = Ret(c.op, "pending", c.suggestionId)]

-----------------------------------------------------------------------------
(* Suggestion store *)

priorityOrder(pr) == CASE pr = "high" -> 2 [] pr = "medium" -> 1 [] OTHER -> 0

\* mutant: among equal priorities the oldest sorts first
compareSuggestions_OldestFirst(a, b) ==
  IF a.dismissed # b.dismissed THEN (IF a.dismissed THEN -1 ELSE 1)
  ELSE IF a.priority # b.priority
       THEN priorityOrder(b.priority) - priorityOrder(a.priority)
       ELSE a.createdAt - b.createdAt

\* the comparator of the trim: negative when a sorts before b
compareSuggestions(a, b) ==
  IF a.dismissed # b.dismissed THEN (IF a.dismissed THEN -1 ELSE 1)
  ELSE IF a.priority # b.priority
       THEN priorityOrder(b.priority) - priorityOrder(a.priority)
       ELSE b.createdAt - a.createdAt

RECURSIVE SortSuggestions(_)
\* Array.prototype.sort (stable) under compareSuggestions
SortSuggestions(s) ==
  IF s = <<>> THEN <<>>
  ELSE LET x == s[Len(s)]
           sorted == SortSuggestions(SubSeq(s, 1, Len(s) - 1))
           k == Cardinality({i \in 1..Len(sorted) : compareSuggestions(sorted[i], x) <= 0})
       IN SubSeq(sorted, 1, k) \o <<x>> \o SubSeq(sorted, k + 1, Len(sorted))

\* .slice(0, n)
Slice0(s, n) == SubSeq(s, 1, IF n < Len(s) THEN n ELSE Len(s))

\* mutant: the same-kind check is missing
addSuggestion_NoDedup(p, s) ==
  LET pushed == Append(p.suggestions, s)
  IN [p EXCEPT !.added = Append(@, s), !.suggestions =
        IF Len(pushed) > p.config.maxActiveSuggestions
        THEN Slice0(SortSuggestions(pushed), p.config.maxActiveSuggestions)
        ELSE pushed]

\* mutant: the capacity trim is missing
addSuggestion_NoTrim(p, s) ==
  LET sameType(x) == x.type = s.type /\ ~x.dismissed
      existing == FindIndex(p.suggestions, sameType)
  IN IF existing # 0 /\ s.type # "ANCHOR_REMINDER" THEN [p EXCEPT !.added = Append(@, s)]
     ELSE [p EXCEPT !.added = Append(@, s), !.suggestions = Append(p.suggestions, s)]

addSuggestion(p, s) ==
  LET sameType(x) == x.type = s.type /\ ~x.dismissed
      existing == FindIndex(p.suggestions, sameType)
  IN IF existing # 0 /\ s.type # "ANCHOR_REMINDER" THEN [p EXCEPT !.added = Append(@, s)]
     ELSE LET pushed == Append(p.suggestions, s)
          IN [p EXCEPT !.added = Append(@, s), !.suggestions =
                IF Len(pushed) > p.config.maxActiveSuggestions
                THEN Slice0(SortSuggestions(pushed), p.config.maxActiveSuggestions)
                ELSE pushed]

cleanupSuggestions(p) ==
  LET now == p.clock
      keep(s) == ~s.dismissed /\ ~(s.expiresAt < now)
  IN [p EXCEPT !.suggestions = Filter(@, keep)]

getActiveSuggestions(sugs) ==
  LET active(s) == ~s.dismissed IN Filter(sugs, active)

notifyListeners(p) ==
  LET active == getActiveSuggestions(p.suggestions)
  IN [p EXCEPT !.notified = [i \in 1..Len(active) |-> active[i].id]]

-----------------------------------------------------------------------------
(* Scheduling policy: break and focus block, up to the gateway call *)

Slot(p, durationMinutes, afterTime) ==
  findNextAvailableSlot(p.config, p.calendarEvents, p.checkIns, durationMinutes, afterTime)

FreshId(p) == p.nextId

TakeId(p) == [p EXCEPT !.nextId = @ + 1]

\* mutant: requireConfirmation is not consulted
shouldAutoSchedule_IgnoringConfirmation(p, toggle) ==
  toggle /\ p.calendarService

\* the test guarding the createEvent call of both scheduling functions:
\* this.config.autoSchedule<Kind> && this.calendarService && !this.config.requireConfirmation
shouldAutoSchedule(p, toggle) ==
  toggle /\ p.calendarService /\ ~p.config.requireConfirmation

\* mutant: the look-up of an existing break suggestion is missing
ensureBreakAfterFocus_NoExistingCheck(p, focusDuration) ==
  LET breakDuration == p.config.defaultBreakDuration
      now == p.clock
      slot == Slot(p, breakDuration, now)
      conflicts == checkForConflicts(p.calendarEvents, p.checkIns, slot.start, slot.end)
      suggestion ==
        NewSuggestion(FreshId(p), "BREAK_NEEDED",
          IF focusDuration > Min(120) THEN "high" ELSE "medium",
          IF p.config.autoScheduleBreaks THEN "auto_scheduled" ELSE "create_event",
          0, slot, breakDuration, now, now + Min(30))
  IN IF ~slot.available
     THEN Return(Log(p, "AI_SUGGESTION", "warning"), "ensureBreakAfterFocus", "null", 0)
     ELSE IF Len(conflicts) > 0
     THEN Return(Log(p, "AI_SUGGESTION", "warning"), "ensureBreakAfterFocus", "null", 0)
     ELSE IF shouldAutoSchedule(p, p.config.autoScheduleBreaks)
     THEN Await(TakeId(p),
            Call("createEvent", "break", suggestion, suggestion.id, 0, "ensureBreakAfterFocus", 0))
     ELSE Return(addSuggestion(Log(TakeId(p), "AI_SUGGESTION", "info"), suggestion),
                 "ensureBreakAfterFocus", "suggestion", suggestion.id)

\* focusDuration is the elapsed time in seconds (the code's minutes * 60)
ensureBreakAfterFocus(p, focusDuration) ==
  LET isBreak(s) == s.type = "BREAK_NEEDED" /\ ~s.dismissed
      existingBreak == FindIndex(p.suggestions, isBreak)
      breakDuration == p.config.defaultBreakDuration
      now == p.clock
      slot == Slot(p, breakDuration, now)
      conflicts == checkForConflicts(p.calendarEvents, p.checkIns, slot.start, slot.end)
      suggestion ==
        NewSuggestion(FreshId(p), "BREAK_NEEDED",
          IF focusDuration > Min(120) THEN "high" ELSE "medium",
          IF p.config.autoScheduleBreaks THEN "auto_scheduled" ELSE "create_event",
          0, slot, breakDuration, now, now + Min(30))
  IN IF existingBreak # 0
     THEN Return(p, "ensureBreakAfterFocus", "suggestion", p.suggestions[existingBreak].id)
     ELSE IF ~slot.available
     THEN Return(Log(p, "AI_SUGGESTION", "warning"), "ensureBreakAfterFocus", "null", 0)
     ELSE IF Len(conflicts) > 0
     THEN Return(Log(p, "AI_SUGGESTION", "warning"), "ensureBreakAfterFocus", "null", 0)
     ELSE IF shouldAutoSchedule(p, p.config.autoScheduleBreaks)
     THEN Await(TakeId(p),
            Call("createEvent", "break", suggestion, suggestion.id, 0, "ensureBreakAfterFocus", 0))
     ELSE Return(addSuggestion(Log(TakeId(p), "AI_SUGGESTION", "info"), suggestion),
                 "ensureBreakAfterFocus", "suggestion", suggestion.id)

\* durationMinutes = 0 stands for the omitted argument
scheduleFocusBlock(p, durationMinutes) ==
  LET duration == IF durationMinutes # 0 THEN durationMinutes
                  ELSE p.config.defaultFocusBlockDuration
      now == p.clock
      slot == Slot(p, duration, now)
      suggestion ==
        NewSuggestion(FreshId(p), "FOCUS_BLOCK", "medium",
          IF p.config.autoScheduleFocusBlocks THEN "auto_scheduled" ELSE "create_event",
          0, slot, duration, now, now + Min(2 * 60))
  IN IF ~slot.available
     THEN Return(Log(p, "AI_SUGGESTION", "warning"), "scheduleFocusBlock", "null", 0)
     ELSE IF shouldAutoSchedule(p, p.config.autoScheduleFocusBlocks)
     THEN Await(TakeId(p),
            Call("createEvent", "focus", suggestion, suggestion.id, 0, "scheduleFocusBlock", 0))
     ELSE Return(addSuggestion(TakeId(p), suggestion),
                 "scheduleFocusBlock", "suggestion", suggestion.id)

\* the continuation of either function after `await createEvent` resolved with result.id = eventId
createEventResolved(p, c, eventId) ==
  LET s == [c.suggestion EXCEPT !.autoScheduled = TRUE,
                                !.calendarEventId = eventId,
                                !.type = "AUTO_SCHEDULED"]
      mapped == [p EXCEPT !.autoScheduledEvents =
                   {m \in @ : m[1] # s.id} \cup {<<s.id, eventId>>}]
  IN Return(addSuggestion(Log(mapped, "AUTO_SCHEDULE", "success"), s),
            c.op, "suggestion", s.id)

\* mutant: the catch block goes on as if the call had produced an event
createEventRejected_AsResolved(p, c) ==
  createEventResolved(p, c, 0)

\* the continuation after `await createEvent` rejected: the catch block, then the add
createEventRejected(p, c) ==
  Return(addSuggestion(Log(p, "ERROR", "error"), c.suggestion),
         c.op, "suggestion", c.suggestion.id)

-----------------------------------------------------------------------------
(* Cancellation and calendar refresh *)

eventIdOf(p, suggestionId) ==
  IF \E m \in p.autoScheduledEvents : m[1] = suggestionId
  THEN (CHOOSE m \in p.autoScheduledEvents : m[1] = suggestionId)[2]
  ELSE 0

cancelAutoScheduledEvent(p, suggestionId) ==
  LET eventId == eventIdOf(p, suggestionId)
  IN IF eventId = 0 \/ ~p.calendarService
     THEN Return(p, "cancelAutoScheduledEvent", "false", suggestionId)
     ELSE Await(p, Call("deleteEvent", "cancel", NoSuggestion, suggestionId, eventId,
                        "cancelAutoScheduledEvent", 0))

\* mutant: the mapping is not deleted after the event was
deleteEventResolved_KeepsMapping(p, c) ==
  LET dismissed == [p EXCEPT !.suggestions =
                      [i \in 1..Len(@) |->
                         IF i = FindIndex(p.suggestions, LAMBDA s : s.id = c.suggestionId)
                         THEN [@[i] EXCEPT !.dismissed = TRUE] ELSE @[i]]]
  IN Return(notifyListeners(Log(dismissed, "AUTO_SCHEDULE", "info")),
            "cancelAutoScheduledEvent", "true", c.suggestionId)

deleteEventResolved(p, c) ==
  LET unmapped == [p EXCEPT !.autoScheduledEvents = {m \in @ : m[1] # c.suggestionId}]
      dismissed == [unmapped EXCEPT !.suggestions =
                      [i \in 1..Len(@) |->
                         IF i = FindIndex(unmapped.suggestions, LAMBDA s : s.id = c.suggestionId)
                         THEN [@[i] EXCEPT !.dismissed = TRUE] ELSE @[i]]]
  IN Return(notifyListeners(Log(dismissed, "AUTO_SCHEDULE", "info")),
            "cancelAutoScheduledEvent", "true", c.suggestionId)

\* mutant: the mapping is deleted although the gateway refused to delete the event
deleteEventRejected_DropsMapping(p, c) ==
  Return(Log([p EXCEPT !.autoScheduledEvents = {m \in @ : m[1] # c.suggestionId}],
             "ERROR", "error"),
         "cancelAutoScheduledEvent", "false", c.suggestionId)

deleteEventRejected(p, c) ==
  Return(Log(p, "ERROR", "error"), "cancelAutoScheduledEvent", "false", c.suggestionId)

refreshCalendarEvents(p) ==
  IF ~p.calendarService THEN Return(p, "refreshCalendarEvents", "void", 0)
  ELSE Await(p, Call("listEvents", "refresh", NoSuggestion, 0, 0,
                     "refreshCalendarEvents", DayOf(p.clock)))

\* mutant: the listed events are appended to the previous snapshot
listEventsResolved_Merges(p, c, events) ==
  Return(Log([p EXCEPT !.calendarEvents = @ \o events], "GCAL_IMPORT", "info"),
         "refreshCalendarEvents", "void", 0)

\* events.map(...): the snapshot is replaced by what the gateway listed
listEventsResolved(p, c, events) ==
  Return(Log([p EXCEPT !.calendarEvents = events], "GCAL_IMPORT", "info"),
         "refreshCalendarEvents", "void", 0)

\* mutant: no catch block, the rejection leaves the function as an exception
listEventsRejected_Throws(p, c) ==
  Return(p, "refreshCalendarEvents", "throw", 0)

listEventsRejected(p, c) ==
  Return(Log(p, "ERROR", "error"), "refreshCalendarEvents", "void", 0)

-----------------------------------------------------------------------------
(* Analysis policies *)

\* mutant: the Journal check-ins of today are not looked at
suggestReflection_IgnoresJournal(p) ==
  LET isReflection(s) == s.type = "REFLECTION_REMINDER" /\ ~s.dismissed
      existingReflection == FindIndex(p.suggestions, isReflection)
      suggestion ==
        NewSuggestion(FreshId(p), "REFLECTION_REMINDER", "low", "navigate",
          0, NoSlot, 0, p.clock, p.clock + Min(3 * 60))
  IN IF existingReflection # 0 THEN p
     ELSE Log(addSuggestion(TakeId(p), suggestion), "AI_SUGGESTION", "info")

suggestReflection(p) ==
  LET isReflection(s) == s.type = "REFLECTION_REMINDER" /\ ~s.dismissed
      existingReflection == FindIndex(p.suggestions, isReflection)
      today == p.clock
      journal(c) == sameDay(c.slot, today) /\ c.category = "Journal"
      todayCheckIns == Filter(p.checkIns, journal)
      suggestion ==
        NewSuggestion(FreshId(p), "REFLECTION_REMINDER", "low", "navigate",
          0, NoSlot, 0, p.clock, p.clock + Min(3 * 60))
  IN IF existingReflection # 0 THEN p
     ELSE IF Len(todayCheckIns) = 0
     THEN Log(addSuggestion(TakeId(p), suggestion), "AI_SUGGESTION", "info")
     ELSE p

RECURSIVE RemindAnchors_NoLookup(_, _, _)
\* mutant: the look-up of an existing reminder for the anchor is missing
RemindAnchors_NoLookup(p, anchors, now) ==
  IF anchors = <<>> THEN p
  ELSE
    LET anchor == Head(anchors)
        suggestion ==
          NewSuggestion(FreshId(p), "ANCHOR_REMINDER", "medium", "navigate",
            anchor.id, NoSlot, 0, p.clock, anchor.slot + Min(5))
    IN RemindAnchors_NoLookup(
         Log(addSuggestion(TakeId(p), suggestion), "AI_SUGGESTION", "info"),
         Tail(anchors), now)

RECURSIVE RemindAnchors(_, _, _)
\* upcomingAnchors.forEach(...)
RemindAnchors(p, anchors, now) ==
  IF anchors = <<>> THEN p
  ELSE
    LET anchor == Head(anchors)
        isReminder(s) == s.type = "ANCHOR_REMINDER" /\ s.anchorId = anchor.id
        existingReminder == FindIndex(p.suggestions, isReminder)
        suggestion ==
          NewSuggestion(FreshId(p), "ANCHOR_REMINDER", "medium", "navigate",
            anchor.id, NoSlot, 0, p.clock, anchor.slot + Min(5))
    IN IF existingReminder # 0 THEN RemindAnchors(p, Tail(anchors), now)
       ELSE RemindAnchors(
              Log(addSuggestion(TakeId(p), suggestion), "AI_SUGGESTION", "info"),
              Tail(anchors), now)

checkAnchorReminders(p, now) ==
  LET upcoming(c) ==
        /\ c.isAnchor /\ ~c.done
        /\ sameDay(c.slot, now)
        /\ c.slot - now > 0
        /\ c.slot - now <= Min(p.config.anchorReminderLeadTime)
  IN RemindAnchors(p, Filter(p.checkIns, upcoming), now)

checkFrictionPatterns(p, now) ==
  LET today(c) == sameDay(c.slot, now)
      todayCheckIns == Filter(p.checkIns, today)
      overdue(c) == ~c.done /\ c.slot < now - Min(15)
      overdueCount == Len(Filter(todayCheckIns, overdue))
      isWarning(s) == s.type = "FRICTION_WARNING" /\ ~s.dismissed
      existingWarning == FindIndex(p.suggestions, isWarning)
      slot == Slot(p, 10, now)
      suggestion ==
        NewSuggestion(FreshId(p), "FRICTION_WARNING", "high", "create_event",
          0, slot, 10, p.clock, p.clock + Min(60))
  IN IF overdueCount >= p.config.frictionThreshold
     THEN IF existingWarning # 0 THEN p
          ELSE Log(addSuggestion(TakeId(p), suggestion), "AI_SUGGESTION", "warning")
     ELSE p

checkUnscheduledTasks(p, now) ==
  LET hour == getHours(now)
      workStart == p.config.workingHours.start
      workEnd == p.config.workingHours.end
      upcoming(c) == ~c.done /\ sameDay(c.slot, now) /\ c.slot > now
      upcomingToday == Filter(p.checkIns, upcoming)
      isFocus(s) == s.type = "FOCUS_BLOCK" /\ ~s.dismissed
      existingSuggestion == FindIndex(p.suggestions, isFocus)
      slot == Slot(p, p.config.defaultFocusBlockDuration, now)
      suggestion ==
        NewSuggestion(FreshId(p), "FOCUS_BLOCK", "low", "create_event",
          0, slot, p.config.defaultFocusBlockDuration, p.clock, p.clock + Min(2 * 60))
  IN IF p.currentRhythmState # "OPEN" THEN p
     ELSE IF hour < workStart \/ hour >= workEnd THEN p
     ELSE IF Len(upcomingToday) = 0
     THEN IF existingSuggestion # 0 THEN p
          ELSE IF ~slot.available THEN p
          ELSE addSuggestion(TakeId(p), suggestion)
     ELSE p

analyzeAndSuggest(p) ==
  LET now == p.clock
      focusDuration == now - p.lastFocusStart
      p1 == IF p.currentRhythmState = "FOCUS" /\ p.lastFocusStart # NoTime
               /\ focusDuration > Min(p.config.focusBreakThreshold)
            THEN ensureBreakAfterFocus(p, focusDuration) ELSE p
      p2 == checkAnchorReminders(p1, now)
      p3 == IF p2.config.enableFrictionDetection THEN checkFrictionPatterns(p2, now) ELSE p2
      p4 == checkUnscheduledTasks(p3, now)
  IN notifyListeners(cleanupSuggestions(p4))

-----------------------------------------------------------------------------
(* Public handlers *)

\* mutant: the config is not brought in line with the new preferences
updatePreferences_NoSync(p, prefs) ==
  LET oldPrefs == p.preferences
      merged == Merge(p.preferences, prefs)
      p1 == Log([p EXCEPT !.preferences = merged], "PROFILE_UPDATED", "info")
      p2 == IF ~oldPrefs.autoScheduleEnabled /\ merged.autoScheduleEnabled
            THEN analyzeAndSuggest(p1) ELSE p1
  IN Return(p2, "updatePreferences", "void", 0)

updatePreferences(p, prefs) ==
  LET oldPrefs == p.preferences
      merged == Merge(p.preferences, prefs)
      p1 == Log([p EXCEPT !.preferences = merged,
                          !.config = syncConfigWithPreferences(p.config, merged)],
                "PROFILE_UPDATED", "info")
      p2 == IF ~oldPrefs.autoScheduleEnabled /\ merged.autoScheduleEnabled
            THEN analyzeAndSuggest(p1) ELSE p1
  IN Return(p2, "updatePreferences", "void", 0)

updateCheckIns(p, cis) ==
  Return(analyzeAndSuggest([p EXCEPT !.checkIns = cis]), "updateCheckIns", "void", 0)

setCalendarService(p, service) ==
  LET p1 == [p EXCEPT !.calendarService = service]
  IN Return(IF service THEN Log(p1, "SYSTEM_INIT", "info") ELSE p1,
            "setCalendarService", "void", 0)

\* mutant: a focus session of exactly focusBreakThreshold minutes already asks for a break
onRhythmStateChange_AtThreshold(p, newState) ==
  LET oldState == p.currentRhythmState
      p0 == [p EXCEPT !.currentRhythmState = newState]
      p1 == IF newState = "FOCUS" /\ oldState # "FOCUS"
            THEN [p0 EXCEPT !.lastFocusStart = p.clock] ELSE p0
      focusDuration == p1.clock - p1.lastFocusStart
      p2 == IF oldState = "FOCUS" /\ newState # "FOCUS" /\ p1.lastFocusStart # NoTime
            THEN [(IF focusDuration >= Min(p1.config.focusBreakThreshold)
                   THEN ensureBreakAfterFocus(p1, focusDuration) ELSE p1)
                  EXCEPT !.lastFocusStart = NoTime]
            ELSE p1
      p3 == IF newState = "REFLECTIVE" /\ oldState # "REFLECTIVE"
            THEN suggestReflection(p2) ELSE p2
  IN Return(analyzeAndSuggest(p3), "onRhythmStateChange", "void", 0)

\* mutant: every update to FOCUS restarts the session clock, also from FOCUS
onRhythmStateChange_RestartsOnFocus(p, newState) ==
  LET oldState == p.currentRhythmState
      p0 == [p EXCEPT !.currentRhythmState = newState]
      p1 == IF newState = "FOCUS"
            THEN [p0 EXCEPT !.lastFocusStart = p.clock] ELSE p0
      focusDuration == p1.clock - p1.lastFocusStart
      p2 == IF oldState = "FOCUS" /\ newState # "FOCUS" /\ p1.lastFocusStart # NoTime
            THEN [(IF focusDuration > Min(p1.config.focusBreakThreshold)
                   THEN ensureBreakAfterFocus(p1, focusDuration) ELSE p1)
                  EXCEPT !.lastFocusStart = NoTime]
            ELSE p1
      p3 == IF newState = "REFLECTIVE" /\ oldState # "REFLECTIVE"
            THEN suggestReflection(p2) ELSE p2
  IN Return(analyzeAndSuggest(p3), "onRhythmStateChange", "void", 0)

onRhythmStateChange(p, newState) ==
  LET oldState == p.currentRhythmState
      p0 == [p EXCEPT !.currentRhythmState = newState]
      p1 == IF newState = "FOCUS" /\ oldState # "FOCUS"
            THEN [p0 EXCEPT !.lastFocusStart = p.clock] ELSE p0
      focusDuration == p1.clock - p1.lastFocusStart
      p2 == IF oldState = "FOCUS" /\ newState # "FOCUS" /\ p1.lastFocusStart # NoTime
            THEN [(IF focusDuration > Min(p1.config.focusBreakThreshold)
                   THEN ensureBreakAfterFocus(p1, focusDuration) ELSE p1)
                  EXCEPT !.lastFocusStart = NoTime]
            ELSE p1
      p3 == IF newState = "REFLECTIVE" /\ oldState # "REFLECTIVE"
            THEN suggestReflection(p2) ELSE p2
  IN Return(analyzeAndSuggest(p3), "onRhythmStateChange", "void", 0)

dismissSuggestion(p, suggestionId) ==
  LET hasId(s) == s.id = suggestionId
      i == FindIndex(p.suggestions, hasId)
  IN IF i # 0
     THEN Return(notifyListeners(Log([p EXCEPT !.suggestions[i].dismissed = TRUE],
                                     "AI_SUGGESTION", "info")),
                 "dismissSuggestion", "void", suggestionId)
     ELSE Return(p, "dismissSuggestion", "void", suggestionId)

\* mutant: the listeners are not told
acceptSuggestion_NoNotify(p, suggestionId) ==
  LET hasId(s) == s.id = suggestionId
      i == FindIndex(p.suggestions, hasId)
  IN IF i = 0 THEN Return(p, "acceptSuggestion", "null", suggestionId)
     ELSE Return(Log([p EXCEPT !.suggestions[i].dismissed = TRUE],
                     "AI_INTERVENTION", "success"),
                 "acceptSuggestion", "suggestion", suggestionId)

acceptSuggestion(p, suggestionId) ==
  LET hasId(s) == s.id = suggestionId
      i == FindIndex(p.suggestions, hasId)
  IN IF i = 0 THEN Return(p, "acceptSuggestion", "null", suggestionId)
     ELSE Return(notifyListeners(Log([p EXCEPT !.suggestions[i].dismissed = TRUE],
                                     "AI_INTERVENTION", "success")),
                 "acceptSuggestion", "suggestion", suggestionId)

-----------------------------------------------------------------------------
(* Calendar gateway (GoogleCalendarService) *)

RECURSIVE OrderByStart(_)
\* orderBy: 'startTime'
OrderByStart(evs) ==
  IF evs = {} THEN <<>>
  ELSE LET first == CHOOSE e \in evs :
                      \A f \in evs : e.start < f.start \/ (e.start = f.start /\ e.id <= f.id)
       IN <<first>> \o OrderByStart(evs \ {first})

\* events.list between 00:00:00.000 and 23:59:59.999 of the day asked for
listEvents(cal, day) ==
  OrderByStart({e \in cal : e.end > day * 86400 /\ e.start < (day + 1) * 86400})

-----------------------------------------------------------------------------
(* Inputs and bounds *)

MaxIds == 4          \* suggestions created in one run
MaxPending == 2      \* gateway calls in flight at once
MaxEvents == 2       \* events the planner creates in one run
MaxSpan == 2         \* the run covers MaxSpan * 100 minutes
MaxSteps == 5        \* operations called in one run of Spec
MaxAutoSteps == 6    \* operations called in one run of SpecAuto
MaxRaceSteps == 6    \* operations called and clock ticks in one run of SpecRace

StartClock == Hour(10)

TickSteps == {Min(100)}

RhythmStates == {"OPEN", "FOCUS", "REFLECTIVE"}

CheckIn(id, category, slot, done, isAnchor) ==
  [id |-> id, category |-> category, slot |-> slot, done |-> done, isAnchor |-> isAnchor]

\* an anchor 10 minutes after the start of the run with three items an hour overdue by
\* then; and two anchors within lead time of the start of the run
CheckInLists ==
  { <<>>,
    << CheckIn(1, "Work", Hour(9), FALSE, FALSE),
       CheckIn(2, "Work", Hour(9) + Min(10), FALSE, FALSE),
       CheckIn(3, "Journal", Hour(9) + Min(20), FALSE, FALSE),
       CheckIn(4, "Work", Hour(10) + Min(10), FALSE, TRUE) >>,
    << CheckIn(5, "Work", Hour(10) + Min(5), FALSE, TRUE),
       CheckIn(6, "Work", Hour(10) + Min(12), FALSE, TRUE) >> }

Event(id, start, end) == [id |-> id, start |-> start, end |-> end]

\* what the external calendar holds before the planner adds to it
ExternalCalendars ==
  { {Event(101, Hour(10), Hour(10) + Min(30))} }

PreferencePatches ==
  { [autoScheduleEnabled |-> TRUE, autoScheduleBreaks |-> TRUE,
     autoScheduleFocusBlocks |-> TRUE, requireConfirmation |-> FALSE],
    [requireConfirmation |-> TRUE] }

\* Partial<PlannerConfig> handed to the constructor
ConstructorConfigs ==
  { [maxActiveSuggestions |-> n] : n \in {1, 2} }

FocusDurations == {Min(130)}

FocusBlockDurations == {0}

-----------------------------------------------------------------------------
(* State machine *)

\* the planner as a handler finds it: nothing written yet to the audit sink or the gateway
This ==
  [ config |-> config, preferences |-> preferences, suggestions |-> suggestions,
    checkIns |-> checkIns, currentRhythmState |-> currentRhythmState,
    lastFocusStart |-> lastFocusStart, calendarService |-> calendarService,
    calendarEvents |-> calendarEvents, autoScheduledEvents |-> autoScheduledEvents,
    clock |-> clock, nextId |-> nextId, pending |-> pending,
    audit |-> <<>>, issued |-> <<>>, notified |-> notified, outcome |-> outcome,
    added |-> <<>> ]

\* ids of the anchors checkAnchorReminders finds upcoming: not done, today, and starting
\* within anchorReminderLeadTime minutes
upcomingAnchors(cis, cfg, now) ==
  {cis[i].id : i \in {j \in 1..Len(cis) :
      /\ cis[j].isAnchor /\ ~cis[j].done
      /\ sameDay(cis[j].slot, now)
      /\ cis[j].slot - now > 0
      /\ cis[j].slot - now <= Min(cfg.anchorReminderLeadTime)}}

\* the fields as a handler or a continuation leaves them
Write(q) ==
  /\ q.nextId <= MaxIds + 1
  /\ Len(q.pending) <= MaxPending
  /\ config' = q.config
  /\ preferences' = q.preferences
  /\ suggestions' = q.suggestions
  /\ checkIns' = q.checkIns
  /\ currentRhythmState' = q.currentRhythmState
  /\ lastFocusStart' = q.lastFocusStart
  /\ calendarService' = q.calendarService
  /\ calendarEvents' = q.calendarEvents
  /\ autoScheduledEvents' = q.autoScheduledEvents
  /\ clock' = q.clock
  /\ nextId' = q.nextId
  /\ pending' = q.pending
  /\ audit' = q.audit
  /\ issued' = q.issued
  /\ notified' = q.notified
  /\ outcome' = q.outcome
  /\ added' = q.added
  /\ reminded' =
       (reminded \cup {q.added[i].anchorId : i \in {j \in 1..Len(q.added) :
                                            q.added[j].type = "ANCHOR_REMINDER"}})
         \cap upcomingAnchors(q.checkIns, q.config, q.clock)

\* a caller invokes a public operation
Commit(q) ==
  /\ stepsLeft > 0
  /\ stepsLeft' = stepsLeft - 1
  /\ settled' = "none"
  /\ Write(q)

\* a promise settles and the suspended function runs on
Resume(q, answer) ==
  /\ Write(q)
  /\ settled' = answer
  /\ UNCHANGED stepsLeft

NoQuery == [durationMinutes |-> 0, afterTime |-> NoTime, slot |-> NoSlot]

\* new RhythmPlanner(c) for some c of configs, with n operations to call
ConstructedFrom(configs, n) ==
  /\ \E c \in configs :
       config = syncConfigWithPreferences(Merge(DEFAULT_CONFIG, c), DEFAULT_PREFERENCES)
  /\ preferences = DEFAULT_PREFERENCES
  /\ suggestions = <<>>
  /\ checkIns = <<>>
  /\ currentRhythmState = "OPEN"
  /\ lastFocusStart = NoTime
  /\ calendarService = FALSE
  /\ calendarEvents = <<>>
  /\ autoScheduledEvents = {}
  /\ clock = StartClock
  /\ nextId = 1
  /\ pending = <<>>
  /\ gateway \in ExternalCalendars
  /\ nextEventId = 1
  /\ audit = <<Entry("SYSTEM_INIT", "info")>>
  /\ issued = <<>>
  /\ notified = <<>>
  /\ outcome = Ret("constructor", "void", 0)
  /\ slotResult = NoQuery
  /\ settled = "none"
  /\ added = <<>>
  /\ reminded = {}
  /\ stepsLeft = n

Constructed(n) == ConstructedFrom(ConstructorConfigs, n)

Init == Constructed(MaxSteps)

Tick ==
  \E d \in TickSteps :
    /\ clock + d <= StartClock + MaxSpan * Min(100)
    /\ stepsLeft > 0
    /\ stepsLeft' = stepsLeft - 1
    /\ clock' = clock + d
    /\ audit' = <<>>
    /\ issued' = <<>>
    /\ outcome' = Ret("none", "void", 0)
    /\ settled' = "none"
    /\ added' = <<>>
    /\ reminded' = reminded \cap upcomingAnchors(checkIns, config, clock + d)
    /\ UNCHANGED <<config, preferences, suggestions, checkIns, currentRhythmState,
                   lastFocusStart, calendarService, calendarEvents, autoScheduledEvents,
                   nextId, pending, gateway, nextEventId, notified, slotResult>>

UpdateCheckIns ==
  \E cis \in CheckInLists :
    /\ Commit(updateCheckIns(This, cis))
    /\ UNCHANGED <<gateway, nextEventId, slotResult>>

OnRhythmStateChange ==
  \E st \in RhythmStates :
    /\ Commit(onRhythmStateChange(This, st))
    /\ UNCHANGED <<gateway, nextEventId, slotResult>>

UpdatePreferences ==
  \E prefs \in PreferencePatches :
    /\ Commit(updatePreferences(This, prefs))
    /\ UNCHANGED <<gateway, nextEventId, slotResult>>

SetCalendarService ==
  \E service \in BOOLEAN :
    /\ Commit(setCalendarService(This, service))
    /\ UNCHANGED <<gateway, nextEventId, slotResult>>

RefreshCalendarEvents ==
  /\ Commit(refreshCalendarEvents(This))
  /\ UNCHANGED <<gateway, nextEventId, slotResult>>

EnsureBreakAfterFocus ==
  \E fd \in FocusDurations :
    /\ Commit(ensureBreakAfterFocus(This, fd))
    /\ UNCHANGED <<gateway, nextEventId, slotResult>>

ScheduleFocusBlock ==
  \E d \in FocusBlockDurations :
    /\ Commit(scheduleFocusBlock(This, d))
    /\ UNCHANGED <<gateway, nextEventId, slotResult>>

\* ids a caller can hold: those in the store or mapped to an event, and the one it was
\* handed last
KnownIds ==
  {suggestions[i].id : i \in 1..Len(suggestions)}
    \cup {m[1] : m \in autoScheduledEvents}
    \cup ({outcome.id} \ {0})

DismissSuggestion ==
  \E id \in KnownIds :
    /\ Commit(dismissSuggestion(This, id))
    /\ UNCHANGED <<gateway, nextEventId, slotResult>>

AcceptSuggestion ==
  \E id \in KnownIds :
    /\ Commit(acceptSuggestion(This, id))
    /\ UNCHANGED <<gateway, nextEventId, slotResult>>

CancelAutoScheduledEvent ==
  \E id \in KnownIds :
    /\ Commit(cancelAutoScheduledEvent(This, id))
    /\ UNCHANGED <<gateway, nextEventId, slotResult>>

\* the call pending[i] leaves the in-flight list when its promise settles
Settled(i) ==
  [This EXCEPT !.pending = SubSeq(pending, 1, i - 1) \o SubSeq(pending, i + 1, Len(pending))]

CreateEventResolve ==
  \E i \in 1..Len(pending) :
    /\ pending[i].call = "createEvent"
    /\ nextEventId <= MaxEvents
    /\ gateway' = gateway \cup
         {Event(nextEventId, pending[i].suggestion.start, pending[i].suggestion.end)}
    /\ nextEventId' = nextEventId + 1
    /\ Resume(createEventResolved(Settled(i), pending[i], nextEventId), "resolved")
    /\ UNCHANGED slotResult

CreateEventReject ==
  \E i \in 1..Len(pending) :
    /\ pending[i].call = "createEvent"
    /\ Resume(createEventRejected(Settled(i), pending[i]), "rejected")
    /\ UNCHANGED <<gateway, nextEventId, slotResult>>

DeleteEventResolve ==
  \E i \in 1..Len(pending) :
    /\ pending[i].call = "deleteEvent"
    /\ \E e \in gateway : e.id = pending[i].eventId
    /\ gateway' = {e \in gateway : e.id # pending[i].eventId}
    /\ Resume(deleteEventResolved(Settled(i), pending[i]), "resolved")
    /\ UNCHANGED <<nextEventId, slotResult>>

DeleteEventReject ==
  \E i \in 1..Len(pending) :
    /\ pending[i].call = "deleteEvent"
    /\ Resume(deleteEventRejected(Settled(i), pending[i]), "rejected")
    /\ UNCHANGED <<gateway, nextEventId, slotResult>>

ListEventsResolve ==
  \E i \in 1..Len(pending) :
    /\ pending[i].call = "listEvents"
    /\ Resume(listEventsResolved(Settled(i), pending[i], listEvents(gateway, pending[i].day)), "resolved")
    /\ UNCHANGED <<gateway, nextEventId, slotResult>>

ListEventsReject ==
  \E i \in 1..Len(pending) :
    /\ pending[i].call = "listEvents"
    /\ Resume(listEventsRejected(Settled(i), pending[i]), "rejected")
    /\ UNCHANGED <<gateway, nextEventId, slotResult>>

Next ==
  \/ Tick
  \/ UpdateCheckIns
  \/ OnRhythmStateChange
  \/ UpdatePreferences
  \/ SetCalendarService
  \/ RefreshCalendarEvents
  \/ EnsureBreakAfterFocus
  \/ ScheduleFocusBlock
  \/ DismissSuggestion
  \/ AcceptSuggestion
  \/ CancelAutoScheduledEvent
  \/ CreateEventResolve
  \/ CreateEventReject
  \/ DeleteEventResolve
  \/ DeleteEventReject
  \/ ListEventsResolve
  \/ ListEventsReject

Spec == Init /\ [][Next]_vars

\* Runs of the callers that drive the gateway directly: scheduling, cancellation and
\* refresh, with every call resolving or rejecting
InitAuto == Constructed(MaxAutoSteps)

NextAuto ==
  \/ UpdatePreferences
  \/ SetCalendarService
  \/ RefreshCalendarEvents
  \/ EnsureBreakAfterFocus
  \/ ScheduleFocusBlock
  \/ CancelAutoScheduledEvent
  \/ CreateEventResolve
  \/ CreateEventReject
  \/ DeleteEventResolve
  \/ DeleteEventReject
  \/ ListEventsResolve
  \/ ListEventsReject

SpecAuto == InitAuto /\ [][NextAuto]_vars

\* Runs of the triggers while createEvent calls are in flight
InitRace == Constructed(MaxRaceSteps)

NextRace ==
  \/ Tick
  \/ UpdateCheckIns
  \/ OnRhythmStateChange
  \/ UpdatePreferences
  \/ SetCalendarService
  \/ CreateEventResolve
  \/ CreateEventReject

SpecRace == InitRace /\ [][NextRace]_vars

-----------------------------------------------------------------------------
(* The slot finder on its own: a planner whose check-ins, cached events and  *)
(* working hours are drawn from bounded sets, queried by a caller            *)

-----------------------------------------------------------------------------
(* Focus sessions of every length around the break threshold: the clock moves in steps
   that put the end of a session at, just after and well after focusBreakThreshold and
   120 minutes *)

MaxFocusSteps == 6   \* operations called and clock steps in one run of SpecFocus

FocusTickSteps == {Min(5), Min(30), Min(90)}

InitFocus == Constructed(MaxFocusSteps)

FocusTick ==
  \E d \in FocusTickSteps :
    /\ clock + d <= StartClock + MaxSpan * Min(100)
    /\ stepsLeft > 0
    /\ stepsLeft' = stepsLeft - 1
    /\ clock' = clock + d
    /\ audit' = <<>>
    /\ issued' = <<>>
    /\ outcome' = Ret("none", "void", 0)
    /\ settled' = "none"
    /\ added' = <<>>
    /\ reminded' = reminded \cap upcomingAnchors(checkIns, config, clock + d)
    /\ UNCHANGED <<config, preferences, suggestions, checkIns, currentRhythmState,
                   lastFocusStart, calendarService, calendarEvents, autoScheduledEvents,
                   nextId, pending, gateway, nextEventId, notified, slotResult>>

NextFocus ==
  \/ FocusTick
  \/ OnRhythmStateChange
  \/ UpdatePreferences
  \/ SetCalendarService
  \/ DismissSuggestion
  \/ CreateEventResolve
  \/ CreateEventReject

SpecFocus == InitFocus /\ [][NextFocus]_vars

-----------------------------------------------------------------------------
(* Preferences of every mirrored field, and working hours that leave no room for a slot *)

MaxPrefSteps == 4    \* operations called and clock steps in one run of SpecPrefs

\* Partial<PlannerPreferences> handed to updatePreferences
PreferenceFieldPatches ==
  PreferencePatches \cup
  { [autoScheduleEnabled |-> TRUE],
    [autoScheduleEnabled |-> FALSE],
    [focusBreakThreshold |-> 60, defaultBreakDuration |-> 10, defaultFocusBlockDuration |-> 25],
    [workingHoursStart |-> 8, workingHoursEnd |-> 10],
    [workingHoursEnd |-> 11],
    [enableFrictionDetection |-> FALSE] }

\* Partial<PlannerConfig> handed to the constructor, some naming mirrored fields
PrefsConstructorConfigs ==
  { [maxActiveSuggestions |-> 2],
    [maxActiveSuggestions |-> 2, focusBreakThreshold |-> 60,
     workingHours |-> [start |-> 8, end |-> 20], autoScheduleEnabled |-> TRUE] }

InitPrefs == ConstructedFrom(PrefsConstructorConfigs, MaxPrefSteps)

UpdatePreferencesField ==
  \E prefs \in PreferenceFieldPatches :
    /\ Commit(updatePreferences(This, prefs))
    /\ UNCHANGED <<gateway, nextEventId, slotResult>>

NextPrefs ==
  \/ UpdatePreferencesField
  \/ FocusTick
  \/ UpdateCheckIns
  \/ OnRhythmStateChange
  \/ SetCalendarService
  \/ EnsureBreakAfterFocus
  \/ ScheduleFocusBlock
  \/ CreateEventResolve
  \/ CreateEventReject

SpecPrefs == InitPrefs /\ [][NextPrefs]_vars

\* Partial<PlannerConfig> handed to the constructor, told apart afterwards by
\* maxActiveSuggestions, which no operation writes
SuppliedConfigs ==
  { [maxActiveSuggestions |-> 1],
    [maxActiveSuggestions |-> 2, focusBreakThreshold |-> 60, defaultBreakDuration |-> 10,
     workingHours |-> [start |-> 8, end |-> 20]] }

\* the argument the planner was constructed with
SuppliedConfig ==
  CHOOSE c \in SuppliedConfigs : c.maxActiveSuggestions = config.maxActiveSuggestions

InitSupplied == ConstructedFrom(SuppliedConfigs, MaxPrefSteps)

SpecSupplied == InitSupplied /\ [][NextPrefs]_vars

-----------------------------------------------------------------------------
(* The suggestion store on its own: addSuggestion called once per step, as the policies
   call it, between dismissals and the passage of time *)

MaxStoreSteps == 5   \* additions, dismissals and clock ticks in one run of SpecStore

\* the suggestions the policies build at time now, before they have a slot
PolicySuggestions(id, now) ==
  { NewSuggestion(id, "BREAK_NEEDED", pr, "create_event", 0, NoSlot, 15, now, now + Min(30)) :
      pr \in {"high", "medium"} }
  \cup
  { NewSuggestion(id, "FRICTION_WARNING", "high", "create_event", 0, NoSlot, 10,
                  now, now + Min(60)),
    NewSuggestion(id, "FOCUS_BLOCK", "low", "create_event", 0, NoSlot, 50,
                  now, now + Min(2 * 60)),
    NewSuggestion(id, "REFLECTION_REMINDER", "low", "navigate", 0, NoSlot, 0,
                  now, now + Min(3 * 60)),
    NewSuggestion(id, "ANCHOR_REMINDER", "medium", "navigate", 4, NoSlot, 0,
                  now, now + Min(15)) }

InitStore == Constructed(MaxStoreSteps)

\* this.addSuggestion(s); the outcome tells whether s was a duplicate, was pushed, or was
\* pushed onto a full store that was then trimmed
AddSuggestion ==
  \E s \in PolicySuggestions(nextId, clock) :
    LET duplicate == \E i \in 1..Len(suggestions) :
                       suggestions[i].type = s.type /\ ~suggestions[i].dismissed
        kind == IF duplicate /\ s.type # "ANCHOR_REMINDER" THEN "duplicate"
                ELSE IF Len(suggestions) + 1 > config.maxActiveSuggestions THEN "trimmed"
                ELSE "pushed"
    IN /\ Commit(Return(addSuggestion(TakeId(This), s), "addSuggestion", kind, s.id))
       /\ UNCHANGED <<gateway, nextEventId, slotResult>>

NextStore ==
  \/ AddSuggestion
  \/ DismissSuggestion
  \/ Tick

SpecStore == InitStore /\ [][NextStore]_vars

SlotEvents ==
  { Event(201, Hour(10), Hour(10) + Min(30)),
    Event(202, Hour(10) + Min(30), Hour(11) + Min(15)),
    Event(203, Hour(11) + Min(20), Hour(11) + Min(40) + 30) }

SlotCheckInLists ==
  { <<>>,
    << CheckIn(1, "Work", Hour(10) + Min(35), FALSE, FALSE),
       CheckIn(2, "Work", Hour(11), TRUE, FALSE) >>,
    << CheckIn(3, "Work", Hour(9), FALSE, TRUE),
       CheckIn(4, "Work", Hour(17) + Min(40), FALSE, FALSE) >> }

SlotWorkingHours ==
  { [workingHoursStart |-> 9, workingHoursEnd |-> 18],
    [workingHoursStart |-> 10, workingHoursEnd |-> 12] }

SlotGaps == {0, 5}

SlotDurations == {15, 50, 480}

SlotAfterTimes ==
  { Hour(8) + Min(3), Hour(10), Hour(10) + Min(5) + 30, Hour(10) + Min(30),
    Hour(17) + Min(20), Hour(23) + Min(58) }

\* a planner with some of events and check-ins cached, and result as the state of the
\* caller's query
SlotPlanner(events, result) ==
  /\ \E wh \in SlotWorkingHours, gap \in SlotGaps :
       /\ preferences = Merge(DEFAULT_PREFERENCES, wh)
       /\ config = syncConfigWithPreferences(
                     Merge(DEFAULT_CONFIG, [minimumEventGap |-> gap]), preferences)
  /\ suggestions = <<>>
  /\ checkIns \in SlotCheckInLists
  /\ currentRhythmState = "OPEN"
  /\ lastFocusStart = NoTime
  /\ calendarService = TRUE
  /\ calendarEvents \in {OrderByStart(evs) : evs \in SUBSET events}
  /\ autoScheduledEvents = {}
  /\ clock = StartClock
  /\ nextId = 1
  /\ pending = <<>>
  /\ gateway = {}
  /\ nextEventId = 1
  /\ audit = <<>>
  /\ issued = <<>>
  /\ notified = <<>>
  /\ outcome = Ret("none", "void", 0)
  /\ slotResult = result
  /\ settled = "none"
  /\ added = <<>>
  /\ reminded = {}
  /\ stepsLeft = 0

InitSlot == SlotPlanner(SlotEvents, NoQuery)

\* a caller asks planner.findNextAvailableSlot(durationMinutes, afterTime)
FindNextAvailableSlot ==
  \E d \in SlotDurations, after \in SlotAfterTimes :
    /\ slotResult' = [durationMinutes |-> d, afterTime |-> after,
                      slot |-> findNextAvailableSlot(config, calendarEvents, checkIns, d, after)]
    /\ UNCHANGED <<config, preferences, suggestions, checkIns, currentRhythmState,
                   lastFocusStart, calendarService, calendarEvents, autoScheduledEvents,
                   clock, nextId, pending, gateway, nextEventId, audit, issued,
                   notified, outcome, settled, added, reminded, stepsLeft>>

NextSlot == FindNextAvailableSlot

SpecSlot == InitSlot /\ [][NextSlot]_vars

-----------------------------------------------------------------------------
(* The while loop of findNextAvailableSlot, one iteration per step *)

\* the query before the loop is entered
LoopIdle ==
  [ durationMinutes |-> 0, afterTime |-> NoTime, slot |-> NoSlot,
    searchTime |-> NoTime, maxSearchTime |-> NoTime, iterations |-> 0, at |-> "idle" ]

\* mutant: the search resumes where the latest conflict starts
LoopBody_FromConflictStart(cfg, events, cis, q) ==
  LET slotEnd == q.searchTime + Min(q.durationMinutes)
      conflictingEvents == checkForConflicts(events, cis, q.searchTime, slotEnd)
  IN IF ~(q.searchTime < q.maxSearchTime) THEN [q EXCEPT !.at = "failed"]
     ELSE IF getHours(slotEnd) > cfg.workingHours.end
             \/ (getHours(slotEnd) = cfg.workingHours.end /\ getMinutes(slotEnd) > 0)
     THEN [q EXCEPT !.at = "failed"]
     ELSE IF ~(Len(conflictingEvents) > 0)
     THEN [q EXCEPT !.at = "found",
                    !.slot = [start |-> q.searchTime, end |-> slotEnd, available |-> TRUE]]
     ELSE [q EXCEPT !.iterations = @ + 1,
                    !.searchTime =
                       SeqMax([i \in 1..Len(conflictingEvents) |-> conflictingEvents[i].start])
                         + Min(cfg.minimumEventGap)]

\* one test of the loop condition and one run of the loop body
LoopBody(cfg, events, cis, q) ==
  LET slotEnd == q.searchTime + Min(q.durationMinutes)
      conflictingEvents == checkForConflicts(events, cis, q.searchTime, slotEnd)
  IN IF ~(q.searchTime < q.maxSearchTime) THEN [q EXCEPT !.at = "failed"]
     ELSE IF getHours(slotEnd) > cfg.workingHours.end
             \/ (getHours(slotEnd) = cfg.workingHours.end /\ getMinutes(slotEnd) > 0)
     THEN [q EXCEPT !.at = "failed"]
     ELSE IF ~(Len(conflictingEvents) > 0)
     THEN [q EXCEPT !.at = "found",
                    !.slot = [start |-> q.searchTime, end |-> slotEnd, available |-> TRUE]]
     ELSE [q EXCEPT !.iterations = @ + 1,
                    !.searchTime =
                       SeqMax([i \in 1..Len(conflictingEvents) |-> conflictingEvents[i].end])
                         + Min(cfg.minimumEventGap)]

\* the events of SlotEvents and one of zero length
LoopEvents == SlotEvents \cup {Event(204, Hour(10) + Min(40), Hour(10) + Min(40))}

InitLoop == SlotPlanner(LoopEvents, LoopIdle)

\* findNextAvailableSlot(d, after) up to the first test of the loop condition
EnterLoop ==
  \E d \in SlotDurations, after \in SlotAfterTimes :
    LET rounded == RoundUp5(after)
        now == IF getHours(rounded) < config.workingHours.start
               THEN setHours(rounded, config.workingHours.start) ELSE rounded
    IN /\ slotResult.at # "while"
       /\ slotResult' = [ durationMinutes |-> d, afterTime |-> after, slot |-> NoSlot,
                          searchTime |-> now,
                          maxSearchTime |-> setHours(now, config.workingHours.end),
                          iterations |-> 0, at |-> "while" ]
       /\ UNCHANGED <<config, preferences, suggestions, checkIns, currentRhythmState,
                      lastFocusStart, calendarService, calendarEvents, autoScheduledEvents,
                      clock, nextId, pending, gateway, nextEventId, audit, issued,
                      notified, outcome, settled, added, reminded, stepsLeft>>

Iterate ==
  /\ slotResult.at = "while"
  /\ slotResult' = LoopBody(config, calendarEvents, checkIns, slotResult)
  /\ UNCHANGED <<config, preferences, suggestions, checkIns, currentRhythmState,
                 lastFocusStart, calendarService, calendarEvents, autoScheduledEvents,
                 clock, nextId, pending, gateway, nextEventId, audit, issued,
                 notified, outcome, settled, added, reminded, stepsLeft>>

NextLoop == EnterLoop \/ Iterate

\* the loop is not suspended: a call that has started keeps running
SpecLoop == InitLoop /\ [][NextLoop]_vars /\ WF_vars(Iterate)

-----------------------------------------------------------------------------
(* checkForConflicts called on its own *)

ConflictIdle ==
  [ start |-> NoTime, end |-> NoTime, hasConflict |-> FALSE, conflictingEvents |-> <<>> ]

\* ends of candidate intervals: on, before and after the boundaries of the events of
\* SlotEvents and of the 30-minute windows of the check-ins of SlotCheckInLists
ConflictTimes ==
  { Hour(9) + Min(30), Hour(10), Hour(10) + Min(30), Hour(10) + Min(35), Hour(10) + Min(50),
    Hour(11) + Min(5), Hour(11) + Min(15), Hour(11) + Min(30) }

InitConflicts == SlotPlanner(SlotEvents, ConflictIdle)

\* a caller asks planner.checkForConflicts(start, end)
CheckForConflicts ==
  \E start \in ConflictTimes, end \in ConflictTimes :
    /\ start < end
    /\ LET conflicts == checkForConflicts(calendarEvents, checkIns, start, end)
       IN slotResult' = [ start |-> start, end |-> end,
                          hasConflict |-> Len(conflicts) > 0,
                          conflictingEvents |-> conflicts ]
    /\ UNCHANGED <<config, preferences, suggestions, checkIns, currentRhythmState,
                   lastFocusStart, calendarService, calendarEvents, autoScheduledEvents,
                   clock, nextId, pending, gateway, nextEventId, audit, issued,
                   notified, outcome, settled, added, reminded, stepsLeft>>

NextConflicts == CheckForConflicts

SpecConflicts == InitConflicts /\ [][NextConflicts]_vars

-----------------------------------------------------------------------------
(* C1: a slot returned by findNextAvailableSlot overlaps no cached calendar  *)
(* event and no 30-minute window of a check-in that is not done.             *)

C1_SlotOverlapsNothing ==
  slotResult.slot.available =>
    /\ \A i \in 1..Len(calendarEvents) :
         ~(slotResult.slot.start < calendarEvents[i].end
           /\ slotResult.slot.end > calendarEvents[i].start)
    /\ \A i \in 1..Len(checkIns) :
         ~checkIns[i].done =>
           ~(slotResult.slot.start < checkIns[i].slot + Min(30)
             /\ slotResult.slot.end > checkIns[i].slot)

\* a slot found only after the search moved past an event and past a pending check-in
C1_Witness ==
  /\ slotResult.slot.available
  /\ \E i \in 1..Len(calendarEvents) :
       /\ calendarEvents[i].start <= slotResult.afterTime
       /\ slotResult.afterTime < calendarEvents[i].end
  /\ \E i \in 1..Len(checkIns) :
       /\ ~checkIns[i].done
       /\ slotResult.slot.start >= checkIns[i].slot + Min(30)
       /\ slotResult.afterTime < checkIns[i].slot + Min(30)

-----------------------------------------------------------------------------
(* C2: after any sequence of public operations, for every kind other than   *)
(* ANCHOR_REMINDER the store never holds two suggestions of that kind that   *)
(* are both not dismissed.                                                   *)

C2_OneActivePerKind ==
  \A i, j \in 1..Len(suggestions) :
    (/\ i # j
     /\ suggestions[i].type = suggestions[j].type
     /\ ~suggestions[i].dismissed
     /\ ~suggestions[j].dismissed)
      => suggestions[i].type = "ANCHOR_REMINDER"

\* scheduleFocusBlock built a second focus block while one was still active, and the
\* store kept only the first
C2_Witness ==
  /\ outcome.op = "scheduleFocusBlock"
  /\ outcome.kind = "suggestion"
  /\ \A i \in 1..Len(suggestions) : suggestions[i].id # outcome.id
  /\ \E i \in 1..Len(suggestions) :
       suggestions[i].type = "FOCUS_BLOCK" /\ ~suggestions[i].dismissed
  /\ Len(suggestions) < config.maxActiveSuggestions

-----------------------------------------------------------------------------
(* C3: a suggestion has kind AUTO_SCHEDULED (autoScheduled set, with a       *)
(* calendarEventId) only if a createEvent call issued for it completed       *)
(* successfully; when createEvent rejects, no suggestion-id to event-id     *)
(* mapping is recorded and the suggestion keeps its original kind            *)
(* (BREAK_NEEDED or FOCUS_BLOCK) without a calendarEventId, and it is in the *)
(* store whenever the store had room and held no active suggestion of that   *)
(* kind.                                                                     *)

-----------------------------------------------------------------------------
(* C4: a createEvent call for a break or a focus block is issued only while  *)
(* the kind's toggle (autoScheduleBreaks / autoScheduleFocusBlocks) is on, a *)
(* calendar service is attached and requireConfirmation is false; otherwise  *)
(* no createEvent is issued and the suggestion built is at most stored as a  *)
(* proposal of its own kind.                                                 *)

-----------------------------------------------------------------------------
(* C5: re-running the analysis pass with unchanged inputs and clock adds     *)
(* nothing: when updateCheckIns is called again with the same check-ins, or  *)
(* onRhythmStateChange again with the same state, right after the first      *)
(* call, the store after the second pass equals the store after the first.   *)

C5_RepeatedPassAddsNothing ==
  [][
    (/\ stepsLeft' < stepsLeft
     /\ clock' = clock
     /\ \/ /\ outcome.op = "updateCheckIns"
           /\ outcome'.op = "updateCheckIns"
           /\ checkIns' = checkIns
        \/ /\ outcome.op = "onRhythmStateChange"
           /\ outcome'.op = "onRhythmStateChange"
           /\ currentRhythmState' = currentRhythmState)
    => suggestions' = suggestions
  ]_vars

-----------------------------------------------------------------------------
(* C6: the look-up of an existing break suggestion reads the store only, and *)
(* before the createEvent call is awaited: a break createEvent is issued     *)
(* only when the store holds no BREAK_NEEDED suggestion that is not          *)
(* dismissed, whatever calls are in flight, and every call that resolves     *)
(* adds an event of its own to the calendar.  So a second trigger can run    *)
(* the analysis while the first trigger's break createEvent is in flight,    *)
(* pass the same look-up, and issue a second createEvent for the same break  *)
(* need.                                                                     *)

C6_BreakLookupIgnoresCallsInFlight ==
  [][
    /\ \A i \in 1..Len(issued') :
         (issued'[i].call = "createEvent" /\ issued'[i].kind = "break") =>
           \A k \in 1..Len(suggestions) :
             suggestions[k].type = "BREAK_NEEDED" => suggestions[k].dismissed
    /\ nextEventId' # nextEventId =>
         \E i \in 1..Len(pending) :
           /\ pending[i].call = "createEvent"
           /\ pending' = SubSeq(pending, 1, i - 1) \o SubSeq(pending, i + 1, Len(pending))
           /\ gateway' = gateway \cup {Event(nextEventId, pending[i].suggestion.start,
                                             pending[i].suggestion.end)}
           /\ \A e \in gateway : e.id # nextEventId
  ]_vars

\* two createEvent calls for a break are in flight, issued by two triggers during one
\* focus session at the same instant, for the same slot
C6_Witness ==
  /\ Len(pending) = 2
  /\ currentRhythmState = "FOCUS"
  /\ \A i \in 1..2 :
       /\ pending[i].call = "createEvent"
       /\ pending[i].kind = "break"
       /\ pending[i].suggestion.createdAt = clock
       /\ pending[i].suggestion.createdAt - lastFocusStart > Min(config.focusBreakThreshold)
  /\ pending[1].suggestion.id # pending[2].suggestion.id
  /\ pending[1].suggestion.start = pending[2].suggestion.start
  /\ issued = <<pending[2]>>
  /\ outcome.op \in {"updateCheckIns", "onRhythmStateChange"}

-----------------------------------------------------------------------------
(* C7: after every operation the number of suggestions getActiveSuggestions  *)
(* returns is at most config.maxActiveSuggestions.                           *)

C7_ActiveWithinMax ==
  /\ config.maxActiveSuggestions >= 1
  /\ Len(getActiveSuggestions(suggestions)) <= config.maxActiveSuggestions

\* one pass offered more suggestions than the store may hold, and the store is full
C7_Witness ==
  /\ Len(audit) > config.maxActiveSuggestions
  /\ \A e \in 1..Len(audit) : audit[e].category = "AI_SUGGESTION"
  /\ Len(getActiveSuggestions(suggestions)) = config.maxActiveSuggestions
  /\ nextId > 1 + config.maxActiveSuggestions

-----------------------------------------------------------------------------
(* C8: when addSuggestion trims the store, dismissed suggestions go first:   *)
(* no suggestion that is not dismissed is removed while a dismissed one is   *)
(* kept.                                                                     *)

C8_TrimRemovesDismissedFirst ==
  [][
    (\E k \in 1..Len(suggestions) :
       /\ ~suggestions[k].dismissed
       /\ \A j \in 1..Len(suggestions') : suggestions'[j].id # suggestions[k].id)
    => ~(\E d \in 1..Len(suggestions) :
           /\ suggestions[d].dismissed
           /\ \E j \in 1..Len(suggestions') : suggestions'[j].id = suggestions[d].id)
  ]_vars

-----------------------------------------------------------------------------
(* C9: for a suggestion that was auto-scheduled, cancelAutoScheduledEvent of *)
(* its id with the calendar service attached issues exactly one deleteEvent, *)
(* for the recorded event id; when that call resolves the mapping is         *)
(* removed, the suggestion is marked dismissed and the result is true; a     *)
(* further cancel of the same id returns false and issues no delete.         *)

-----------------------------------------------------------------------------
(* C10: a rejected or throwing createEvent, listEvents or deleteEvent never  *)
(* propagates out of ensureBreakAfterFocus, scheduleFocusBlock,              *)
(* refreshCalendarEvents or cancelAutoScheduledEvent: the operation          *)
(* completes normally (returning the suggestion, void or false) and an       *)
(* audit entry of category ERROR is written for the failure.                 *)

C10_FailuresCaughtAndAudited ==
  [][
    settled' = "rejected" =>
      \E i \in 1..Len(pending) :
        LET c == pending[i]
        IN /\ pending' = SubSeq(pending, 1, i - 1) \o SubSeq(pending, i + 1, Len(pending))
           /\ audit' = <<Entry("ERROR", "error")>>
           /\ outcome'.op = c.op
           /\ outcome'.kind # "throw"
           /\ c.call = "createEvent" =>
                /\ c.op \in {"ensureBreakAfterFocus", "scheduleFocusBlock"}
                /\ outcome' = Ret(c.op, "suggestion", c.suggestionId)
           /\ c.call = "listEvents" =>
                /\ outcome' = Ret("refreshCalendarEvents", "void", 0)
                /\ calendarEvents' = calendarEvents
           /\ c.call = "deleteEvent" =>
                /\ outcome' = Ret("cancelAutoScheduledEvent", "false", c.suggestionId)
                /\ autoScheduledEvents' = autoScheduledEvents
                /\ suggestions' = suggestions
  ]_vars

\* the gateway has just refused to delete the event of an auto-scheduled suggestion:
\* cancelAutoScheduledEvent returned false and the failure is in the audit trail
C10_Witness ==
  /\ settled = "rejected"
  /\ outcome.op = "cancelAutoScheduledEvent"
  /\ outcome.kind = "false"
  /\ audit = <<Entry("ERROR", "error")>>
  /\ \E m \in autoScheduledEvents : m[1] = outcome.id

-----------------------------------------------------------------------------
(* C11: over any sequence of triggers, dismissals and acceptances, the       *)
(* anchor-reminder policy adds an ANCHOR_REMINDER referencing a given anchor *)
(* check-in id at most once while that anchor stays within its lead-time     *)
(* window.                                                                   *)

C11_ReminderAddedOncePerAnchor ==
  [][
    \A i \in 1..Len(added') :
      added'[i].type = "ANCHOR_REMINDER" => added'[i].anchorId \notin reminded
  ]_vars

-----------------------------------------------------------------------------
(* C12: in every reachable state the store holds at most one ANCHOR_REMINDER *)
(* suggestion per anchor id, while ANCHOR_REMINDER suggestions for different *)
(* anchor ids may coexist.                                                   *)

C12_OneReminderPerAnchor ==
  \A i, j \in 1..Len(suggestions) :
    (/\ suggestions[i].type = "ANCHOR_REMINDER"
     /\ suggestions[j].type = "ANCHOR_REMINDER"
     /\ suggestions[i].anchorId = suggestions[j].anchorId)
      => i = j

\* reminders for two different anchors are in the store after a repeated pass
C12_Witness ==
  /\ \E i, j \in 1..Len(suggestions) :
       /\ suggestions[i].type = "ANCHOR_REMINDER"
       /\ suggestions[j].type = "ANCHOR_REMINDER"
       /\ suggestions[i].anchorId # suggestions[j].anchorId
       /\ ~suggestions[i].dismissed /\ ~suggestions[j].dismissed
  /\ added = <<>>
  /\ outcome.op = "updateCheckIns"
  /\ Cardinality(reminded) = 2


-----------------------------------------------------------------------------
(* C13 *)

\* the operations that run an analysis pass on every call
PassOps == {"updateCheckIns", "onRhythmStateChange"}

\* not-done check-ins of the day of now scheduled more than 15 minutes before now
OverdueToday(cis, now) ==
  Cardinality({i \in 1..Len(cis) :
    sameDay(cis[i].slot, now) /\ ~cis[i].done /\ cis[i].slot < now - Min(15)})

PendingWarnings(sugs) ==
  {i \in 1..Len(sugs) : sugs[i].type = "FRICTION_WARNING" /\ ~sugs[i].dismissed}

WarningsIn(s) == {i \in 1..Len(s) : s[i].type = "FRICTION_WARNING"}

\* C13: with friction detection enabled, an analysis pass that finds at least
\* frictionThreshold overdue check-ins leaves exactly one non-dismissed FRICTION_WARNING,
\* of high priority, in the store, and adds none when one was pending before the pass;
\* a pass that finds fewer adds no FRICTION_WARNING.
C13_FrictionWarningAfterPass ==
  [][ (outcome'.op \in PassOps /\ stepsLeft' < stepsLeft /\ config'.enableFrictionDetection)
      => IF OverdueToday(checkIns', clock') >= config'.frictionThreshold
         THEN /\ Cardinality(PendingWarnings(suggestions')) = 1
              /\ \A i \in PendingWarnings(suggestions') : suggestions'[i].priority = "high"
              /\ PendingWarnings(suggestions) # {} => WarningsIn(added') = {}
         ELSE WarningsIn(added') = {} ]_vars


-----------------------------------------------------------------------------
(* C14 *)

BreaksIn(s) == {i \in 1..Len(s) : s[i].type = "BREAK_NEEDED"}

\* the step is onRhythmStateChange taking the planner out of FOCUS
LeavesFocus ==
  /\ outcome'.op = "onRhythmStateChange" /\ stepsLeft' < stepsLeft
  /\ currentRhythmState = "FOCUS" /\ currentRhythmState' # "FOCUS"
  /\ lastFocusStart # NoTime

\* C14: when onRhythmStateChange leaves FOCUS more than focusBreakThreshold minutes after
\* FOCUS was entered, a slot is free, no break suggestion is pending and the
\* auto-scheduling gate is closed, exactly one BREAK_NEEDED suggestion is added, of
\* priority high when more than 120 minutes elapsed and medium otherwise, with an
\* interval of defaultBreakDuration minutes; when at most focusBreakThreshold minutes
\* elapsed none is added.
C14_BreakAfterLongFocus ==
  [][ LeavesFocus =>
        LET elapsed == clock - lastFocusStart
            free == findNextAvailableSlot(config, calendarEvents, checkIns,
                                          config.defaultBreakDuration, clock).available
            pendingBreak == \E i \in 1..Len(suggestions) :
                               suggestions[i].type = "BREAK_NEEDED" /\ ~suggestions[i].dismissed
            auto == shouldAutoSchedule(This, config.autoScheduleBreaks)
        IN IF elapsed > Min(config.focusBreakThreshold)
           THEN (free /\ ~pendingBreak /\ ~auto) =>
                  /\ Cardinality(BreaksIn(added')) = 1
                  /\ \A i \in BreaksIn(added') :
                       /\ added'[i].priority = (IF elapsed > Min(120) THEN "high" ELSE "medium")
                       /\ added'[i].durationMinutes = config.defaultBreakDuration
                       /\ added'[i].end - added'[i].start = Min(config.defaultBreakDuration)
           ELSE BreaksIn(added') = {} ]_vars

\* a session of 95 to 120 minutes was left and a medium-priority break was added
C14_Witness ==
  /\ outcome.op = "onRhythmStateChange"
  /\ currentRhythmState # "FOCUS" /\ lastFocusStart = NoTime
  /\ \E i \in BreaksIn(added) : added[i].priority = "medium"
  /\ \E i \in 1..Len(suggestions) :
       suggestions[i].type = "BREAK_NEEDED" /\ suggestions[i].priority = "medium"


-----------------------------------------------------------------------------
(* C15 *)

\* C15: a dismissSuggestion or acceptSuggestion call naming a suggestion that is already
\* dismissed or accepted changes nothing, returns no suggestion and writes no audit
\* entry; and no suggestion goes back from dismissed to active.
C15_TerminalTransitionOnce ==
  [][ /\ \A i \in 1..Len(suggestions) :
           ( /\ suggestions[i].dismissed
             /\ outcome'.op \in {"dismissSuggestion", "acceptSuggestion"}
             /\ outcome'.id = suggestions[i].id
             /\ stepsLeft' < stepsLeft )
           => /\ suggestions' = suggestions
              /\ outcome'.kind # "suggestion"
              /\ audit' = <<>>
      /\ \A i \in 1..Len(suggestions), j \in 1..Len(suggestions') :
           (suggestions[i].dismissed /\ suggestions'[j].id = suggestions[i].id)
             => suggestions'[j].dismissed ]_vars


-----------------------------------------------------------------------------
(* C16 *)

\* C16: an AUTO_SCHEDULED suggestion whose calendar event is still on the calendar after
\* a step is still in the store after it, not dismissed and still AUTO_SCHEDULED.
C16_AutoScheduledLeavesOnlyByCancel ==
  [][ \A i \in 1..Len(suggestions) :
        ( /\ suggestions[i].type = "AUTO_SCHEDULED" /\ ~suggestions[i].dismissed
          /\ \E e \in gateway' : e.id = suggestions[i].calendarEventId )
        => \E j \in 1..Len(suggestions') :
             /\ suggestions'[j].id = suggestions[i].id
             /\ suggestions'[j].type = "AUTO_SCHEDULED"
             /\ ~suggestions'[j].dismissed ]_vars


-----------------------------------------------------------------------------
(* C17 *)

\* C17: whenever no operation is in flight, the list last delivered to the listeners is
\* the list getActiveSuggestions() returns.
C17_ListenersHoldActiveList ==
  pending = <<>> =>
    notified = [i \in 1..Len(getActiveSuggestions(suggestions)) |->
                  getActiveSuggestions(suggestions)[i].id]


-----------------------------------------------------------------------------
(* C18 *)

\* C18: in every reachable state each config field mirrored from the preferences equals
\* the preference it mirrors.
C18_ConfigMirrorsPreferences ==
  /\ config.autoScheduleEnabled = preferences.autoScheduleEnabled
  /\ config.autoScheduleBreaks = preferences.autoScheduleBreaks
  /\ config.autoScheduleFocusBlocks = preferences.autoScheduleFocusBlocks
  /\ config.requireConfirmation = preferences.requireConfirmation
  /\ config.focusBreakThreshold = preferences.focusBreakThreshold
  /\ config.defaultBreakDuration = preferences.defaultBreakDuration
  /\ config.defaultFocusBlockDuration = preferences.defaultFocusBlockDuration
  /\ config.workingHours.start = preferences.workingHoursStart
  /\ config.workingHours.end = preferences.workingHoursEnd
  /\ config.enableFrictionDetection = preferences.enableFrictionDetection

\* updatePreferences calls have changed durations, working hours and a toggle
C18_Witness ==
  /\ outcome.op = "updatePreferences"
  /\ preferences.focusBreakThreshold = 60 /\ config.focusBreakThreshold = 60
  /\ preferences.workingHoursEnd = 11 /\ config.workingHours.end = 11
  /\ preferences.workingHoursStart = 8 /\ config.workingHours.start = 8
  /\ ~preferences.enableFrictionDetection /\ ~config.enableFrictionDetection


-----------------------------------------------------------------------------
(* C19 *)

SlotPolicyTypes == {"BREAK_NEEDED", "FRICTION_WARNING", "FOCUS_BLOCK"}

\* C19: no step adds a suggestion of a slot-asking policy (break, friction regroup, focus
\* block) that carries no slot, or issues a createEvent call for one; and an analysis
\* pass still adds the reminder of every upcoming anchor that has none in the store.
C19_NoSlotNoSuggestion ==
  [][ /\ \A i \in 1..Len(added') :
           added'[i].type \in SlotPolicyTypes => added'[i].start # NoTime
      /\ \A i \in 1..Len(issued') :
           issued'[i].call = "createEvent" => issued'[i].suggestion.start # NoTime
      /\ (outcome'.op \in PassOps /\ stepsLeft' < stepsLeft) =>
           \A a \in upcomingAnchors(checkIns', config', clock') :
             \/ \E i \in 1..Len(suggestions) :
                  suggestions[i].type = "ANCHOR_REMINDER" /\ suggestions[i].anchorId = a
             \/ \E i \in 1..Len(added') :
                  added'[i].type = "ANCHOR_REMINDER" /\ added'[i].anchorId = a ]_vars


-----------------------------------------------------------------------------
(* C20 *)

\* C20: a slot returned by findNextAvailableSlot starts at or after workingHours.start:00
\* and ends at or before workingHours.end:00 of the day of afterTime, and lasts the
\* requested duration.
C20_SlotWithinWorkingHours ==
  slotResult.slot.available =>
    /\ slotResult.slot.start >= setHours(slotResult.afterTime, config.workingHours.start)
    /\ slotResult.slot.end <= setHours(slotResult.afterTime, config.workingHours.end)
    /\ slotResult.slot.end - slotResult.slot.start = Min(slotResult.durationMinutes)


-----------------------------------------------------------------------------
(* C21 *)

\* C21: every iteration of the loop of findNextAvailableSlot returns a slot, fails, or
\* moves searchTime strictly forward, and every call that entered the loop leaves it.
C21_SearchTerminates ==
  /\ [][ (slotResult.at = "while" /\ slotResult'.at = "while")
           => slotResult'.searchTime > slotResult.searchTime ]_vars
  /\ (slotResult.at = "while") ~> (slotResult.at # "while")

\* a slot was found after the search moved past conflicts three times
C21_Witness ==
  /\ slotResult.at = "found"
  /\ slotResult.iterations >= 3
  /\ slotResult.slot.start > slotResult.afterTime

\* the loop, run step by step, returns what findNextAvailableSlot returns
LoopAgreesWithFinder ==
  slotResult.at \in {"found", "failed"} =>
    slotResult.slot = findNextAvailableSlot(config, calendarEvents, checkIns,
                                            slotResult.durationMinutes, slotResult.afterTime)


-----------------------------------------------------------------------------
(* C22 *)

-----------------------------------------------------------------------------
(* C23 *)

TriggerOps == {"updateCheckIns", "onRhythmStateChange", "updatePreferences"}

\* C23: every call of updateCheckIns, onRhythmStateChange and updatePreferences runs the
\* analysis pass: when it returns, every upcoming anchor has its reminder (policies), the
\* store holds no dismissed and no expired suggestion (expiry sweep), and the listeners
\* hold the active list (notification).
C23_EveryTriggerRunsPass ==
  [][ (outcome'.op \in TriggerOps /\ stepsLeft' < stepsLeft) =>
        /\ \A a \in upcomingAnchors(checkIns', config', clock') :
             \/ \E i \in 1..Len(suggestions) :
                  suggestions[i].type = "ANCHOR_REMINDER" /\ suggestions[i].anchorId = a
             \/ \E i \in 1..Len(added') :
                  added'[i].type = "ANCHOR_REMINDER" /\ added'[i].anchorId = a
        /\ \A i \in 1..Len(suggestions') :
             ~suggestions'[i].dismissed /\ ~(suggestions'[i].expiresAt < clock')
        /\ notified' = [i \in 1..Len(getActiveSuggestions(suggestions')) |->
                          getActiveSuggestions(suggestions')[i].id] ]_vars


-----------------------------------------------------------------------------
(* C24 *)

\* C24: a step that hands a suggestion to the store writes at least one audit entry, and
\* so does a step in which a gateway createEvent or deleteEvent call completes.
C24_EveryAddAudited ==
  [][ /\ added' # <<>> => audit' # <<>>
      /\ ( /\ settled' # "none"
           /\ outcome'.op \in {"ensureBreakAfterFocus", "scheduleFocusBlock",
                               "cancelAutoScheduledEvent"} )
         => audit' # <<>> ]_vars


-----------------------------------------------------------------------------
(* C25 *)

\* C25: at every instant no suggestion returned by getActiveSuggestions has an expiresAt
\* earlier than the current time.
C25_ActiveExcludesExpired ==
  \A i \in 1..Len(getActiveSuggestions(suggestions)) :
    ~(getActiveSuggestions(suggestions)[i].expiresAt < clock)


-----------------------------------------------------------------------------
(* C26 *)

\* how often x occurs in the sequence s
Occurrences(s, x) == Cardinality({i \in 1..Len(s) : s[i] = x})

\* C26: checkForConflicts(start, end) returns each cached event e with start < e.end and
\* end > e.start once and no other event, one entry for each not-done check-in c with
\* start < c.slot + 30 minutes and end > c.slot and none for any other check-in, and
\* nothing else; hasConflict is true exactly when the list is not empty.
C26_ConflictsExact ==
  slotResult.start # NoTime =>
    LET start == slotResult.start
        end == slotResult.end
        list == slotResult.conflictingEvents
        evs == {i \in 1..Len(calendarEvents) :
                  start < calendarEvents[i].end /\ end > calendarEvents[i].start}
        cs == {i \in 1..Len(checkIns) :
                 /\ ~checkIns[i].done
                 /\ start < checkIns[i].slot + Min(30) /\ end > checkIns[i].slot}
        entry(c) == [id |-> c.id, start |-> c.slot, end |-> c.slot + Min(30)]
    IN /\ \A i \in 1..Len(calendarEvents) :
            Occurrences(list, calendarEvents[i]) = (IF i \in evs THEN 1 ELSE 0)
       /\ \A i \in 1..Len(checkIns) :
            Occurrences(list, entry(checkIns[i])) = (IF i \in cs THEN 1 ELSE 0)
       /\ Len(list) = Cardinality(evs) + Cardinality(cs)
       /\ slotResult.hasConflict <=> (Len(list) > 0)

\* an interval starting where a cached event ends, over the window of a done check-in and
\* of a not-done one: only the not-done check-in is reported
C26_Witness ==
  /\ slotResult.start # NoTime
  /\ \E i \in 1..Len(calendarEvents) : calendarEvents[i].end = slotResult.start
  /\ \E i \in 1..Len(checkIns) :
       /\ checkIns[i].done
       /\ slotResult.start < checkIns[i].slot + Min(30) /\ slotResult.end > checkIns[i].slot
  /\ slotResult.hasConflict
  /\ \A i \in 1..Len(slotResult.conflictingEvents) :
       \E j \in 1..Len(checkIns) :
         ~checkIns[j].done /\ slotResult.conflictingEvents[i].id = checkIns[j].id


-----------------------------------------------------------------------------
(* C27 *)

\* steps that call addSuggestion once and run no expiry sweep
SingleAddOps == {"addSuggestion", "ensureBreakAfterFocus", "scheduleFocusBlock"}

\* C27: when one addSuggestion call pushes a suggestion (it is no duplicate of a pending
\* one of its kind) and the store is trimmed, every
\* removed suggestion that is not dismissed has a priority lower than or equal to that
\* of every kept one that is not dismissed, and when the priorities are equal it was not
\* created after the kept one.
C27_TrimKeepsHighestNewest ==
  [][ ( /\ outcome'.op \in SingleAddOps /\ Len(added') = 1
        /\ \/ added'[1].type = "ANCHOR_REMINDER"
           \/ ~\E i \in 1..Len(suggestions) :
                 suggestions[i].type = added'[1].type /\ ~suggestions[i].dismissed ) =>
        LET pushed == Append(suggestions, added'[1])
            removed == {i \in 1..Len(pushed) :
                          /\ ~pushed[i].dismissed
                          /\ \A j \in 1..Len(suggestions') : suggestions'[j].id # pushed[i].id}
            kept == {j \in 1..Len(suggestions') : ~suggestions'[j].dismissed}
        IN \A i \in removed, j \in kept :
             /\ priorityOrder(pushed[i].priority) <= priorityOrder(suggestions'[j].priority)
             /\ pushed[i].priority = suggestions'[j].priority
                  => pushed[i].createdAt <= suggestions'[j].createdAt ]_vars

\* a full store was trimmed: the new suggestion stays next to one of the same priority
\* created earlier, and an earlier one that was not dismissed is gone
C27_Witness ==
  /\ outcome.op = "addSuggestion" /\ outcome.kind = "trimmed"
  /\ Len(suggestions) = 2 /\ config.maxActiveSuggestions = 2
  /\ \A i \in 1..2 : ~suggestions[i].dismissed
  /\ \E i, j \in 1..2 :
       /\ suggestions[i].id = outcome.id
       /\ suggestions[j].priority = suggestions[i].priority
       /\ suggestions[j].createdAt < suggestions[i].createdAt


-----------------------------------------------------------------------------
(* C28 *)

ReflectionsIn(s) == {i \in 1..Len(s) : s[i].type = "REFLECTION_REMINDER"}

\* the store as the i-th addSuggestion call of the step finds it: the only suggestion
\* onRhythmStateChange can add before the reflection reminder is the break
StoreAtAdd(i) ==
  IF i = 1 THEN suggestions ELSE addSuggestion(This, added'[1]).suggestions

\* C28: a REFLECTION_REMINDER is added only by an onRhythmStateChange that enters
\* REFLECTIVE from another state, with no check-in of category Journal scheduled today
\* and no REFLECTION_REMINDER pending in the store at that moment; it is at most the
\* second suggestion the call adds, and it has a navigate action and no slot.
C28_ReflectionOnlyOnEntering ==
  [][ \A i \in ReflectionsIn(added') :
        /\ outcome'.op = "onRhythmStateChange" /\ stepsLeft' < stepsLeft
        /\ i <= 2 /\ (i = 2 => added'[1].type = "BREAK_NEEDED")
        /\ currentRhythmState # "REFLECTIVE" /\ currentRhythmState' = "REFLECTIVE"
        /\ ~\E c \in 1..Len(checkIns) :
              sameDay(checkIns[c].slot, clock) /\ checkIns[c].category = "Journal"
        /\ ~\E j \in ReflectionsIn(StoreAtAdd(i)) : ~StoreAtAdd(i)[j].dismissed
        /\ added'[i].actionType = "navigate"
        /\ added'[i].start = NoTime /\ added'[i].end = NoTime ]_vars

\* REFLECTIVE was entered with check-ins of today, none of them a Journal one, and the
\* reminder was added
C28_Witness ==
  /\ outcome.op = "onRhythmStateChange" /\ currentRhythmState = "REFLECTIVE"
  /\ ReflectionsIn(added) # {}
  /\ checkIns # <<>>
  /\ \E i \in ReflectionsIn(suggestions) : ~suggestions[i].dismissed


-----------------------------------------------------------------------------
(* C29 *)

\* C29: during a FOCUS session, a trigger that starts with no gateway call in flight
\* issues no createEvent for a break while the store holds a suggestion auto-scheduled
\* during that session.
C29_OneBreakEventPerSession ==
  [][ \A i \in 1..Len(issued') :
        ( /\ issued'[i].call = "createEvent" /\ issued'[i].kind = "break"
          /\ pending = <<>>
          /\ currentRhythmState = "FOCUS" /\ lastFocusStart # NoTime )
        => ~\E k \in 1..Len(suggestions) :
              /\ suggestions[k].type = "AUTO_SCHEDULED"
              /\ suggestions[k].createdAt >= lastFocusStart ]_vars


-----------------------------------------------------------------------------
(* C30 *)

\* C30: a slot returned by findNextAvailableSlot(duration, afterTime) starts at or after
\* afterTime.
C30_SlotNotBeforeAfterTime ==
  slotResult.slot.available => slotResult.slot.start >= slotResult.afterTime


-----------------------------------------------------------------------------
(* C31 *)

\* the intervals the planner treats as taken: cached events and the 30-minute windows of
\* the check-ins that are not done
Commitments ==
  {[start |-> calendarEvents[i].start, end |-> calendarEvents[i].end] :
     i \in 1..Len(calendarEvents)}
  \cup
  {[start |-> checkIns[i].slot, end |-> checkIns[i].slot + Min(30)] :
     i \in {j \in 1..Len(checkIns) : ~checkIns[j].done}}

\* C31: a slot returned by findNextAvailableSlot starts at least minimumEventGap minutes
\* after the end of every commitment that ends at or before its start, and ends at least
\* minimumEventGap minutes before the start of every commitment that begins at or after
\* its end.
C31_SlotKeepsMinimumGap ==
  slotResult.slot.available =>
    \A c \in Commitments :
      /\ c.end <= slotResult.slot.start
           => slotResult.slot.start - c.end >= Min(config.minimumEventGap)
      /\ c.start >= slotResult.slot.end
           => c.start - slotResult.slot.end >= Min(config.minimumEventGap)


-----------------------------------------------------------------------------
(* C32 *)

\* C32: a step that issues a gateway createEvent call is taken with the master toggle
\* autoScheduleEnabled on, whatever autoScheduleBreaks, autoScheduleFocusBlocks and
\* requireConfirmation are.
C32_NoCreateEventWhileMasterOff ==
  [][\A i \in 1..Len(issued') :
       issued'[i].call = "createEvent" => config'.autoScheduleEnabled]_vars


-----------------------------------------------------------------------------
(* C33 *)

\* C33: when deleteEvent is rejected, cancelAutoScheduledEvent returns false, and the
\* mapping, the suggestions and the list held by the listeners are as before, with no
\* gateway call made; a cancel for an id without mapping, or with no service attached,
\* returns false at once without a gateway call and without changing them either.
C33_FailedCancelChangesNothing ==
  [][ /\ (outcome'.op = "cancelAutoScheduledEvent" /\ settled' = "rejected")
           => /\ outcome'.kind = "false"
              /\ autoScheduledEvents' = autoScheduledEvents
              /\ suggestions' = suggestions
              /\ notified' = notified
              /\ issued' = <<>>
      /\ ( /\ outcome'.op = "cancelAutoScheduledEvent" /\ settled' = "none"
           /\ (eventIdOf(This, outcome'.id) = 0 \/ ~calendarService) )
           => /\ outcome'.kind = "false"
              /\ issued' = <<>> /\ pending' = pending
              /\ autoScheduledEvents' = autoScheduledEvents
              /\ suggestions' = suggestions
              /\ notified' = notified ]_vars

\* a rejected deleteEvent has just ended a cancel, and the mapping of the suggestion is
\* still there
C33_Witness ==
  /\ outcome = Ret("cancelAutoScheduledEvent", "false", outcome.id)
  /\ settled = "rejected"
  /\ eventIdOf(This, outcome.id) # 0
  /\ \E i \in 1..Len(suggestions) :
       suggestions[i].id = outcome.id /\ ~suggestions[i].dismissed


-----------------------------------------------------------------------------
(* C34 *)

\* C34: a refresh that ends because listEvents was rejected, or at once because no
\* service is attached, leaves the cached events and the suggestions as they were; a
\* refresh that ends because listEvents resolved leaves the cache equal to the events
\* the gateway listed, and the suggestions as they were.
C34_RefreshReplacesOrKeeps ==
  [][ outcome'.op = "refreshCalendarEvents" =>
        /\ suggestions' = suggestions
        /\ (settled' = "rejected" \/ (settled' = "none" /\ ~calendarService))
             => calendarEvents' = calendarEvents
        /\ settled' = "resolved"
             => \E i \in 1..Len(pending) :
                  /\ pending[i].call = "listEvents"
                  /\ calendarEvents' = listEvents(gateway, pending[i].day) ]_vars

\* a refresh has just resolved, and the cache holds an event the planner created next to
\* the one that was on the calendar
C34_Witness ==
  /\ outcome.op = "refreshCalendarEvents" /\ settled = "resolved"
  /\ \E i, j \in 1..Len(calendarEvents) :
       calendarEvents[i].id < 101 /\ calendarEvents[j].id >= 101


-----------------------------------------------------------------------------
(* C35 *)

\* the events on the calendar that the planner created and has not deleted
AutoScheduledOnCalendar == {e \in gateway : e.id <= MaxEvents}

\* C35: no two events the planner auto-scheduled, and has not cancelled, overlap.
C35_AutoScheduledEventsDisjoint ==
  \A e, f \in AutoScheduledOnCalendar :
    e.id # f.id => ~timeRangesOverlap(e.start, e.end, f.start, f.end)


-----------------------------------------------------------------------------
(* C36 *)

\* C36: every key of autoScheduledEvents is the id of a suggestion in the store whose
\* type is AUTO_SCHEDULED and whose calendarEventId is the mapped event id.
C36_MappingPointsIntoStore ==
  \A m \in autoScheduledEvents :
    \E i \in 1..Len(suggestions) :
      /\ suggestions[i].id = m[1]
      /\ suggestions[i].type = "AUTO_SCHEDULED"
      /\ suggestions[i].calendarEventId = m[2]


-----------------------------------------------------------------------------
(* C37 *)

\* C37: when ensureBreakAfterFocus or scheduleFocusBlock returns a suggestion, whether
\* directly or after its createEvent call settled, a suggestion with that id is in the
\* store.
C37_ReturnedSuggestionStored ==
  [][ ( /\ outcome'.op \in {"ensureBreakAfterFocus", "scheduleFocusBlock"}
        /\ outcome'.kind = "suggestion" )
      => \E i \in 1..Len(suggestions') : suggestions'[i].id = outcome'.id ]_vars


-----------------------------------------------------------------------------
(* C38 *)

\* C38: lastFocusStart is recorded exactly while currentRhythmState is FOCUS; a step
\* changes it only by setting it to the current instant on a transition into FOCUS from
\* another state, or by clearing it on a transition out of FOCUS, and every transition
\* out of FOCUS clears it; an update from FOCUS to FOCUS leaves it as it was.
C38_FocusStartTracksFocus ==
  /\ []((lastFocusStart # NoTime) <=> (currentRhythmState = "FOCUS"))
  /\ [][ /\ (currentRhythmState # "FOCUS" /\ currentRhythmState' = "FOCUS")
              => lastFocusStart' = clock'
         /\ (currentRhythmState = "FOCUS" /\ currentRhythmState' # "FOCUS")
              => lastFocusStart' = NoTime
         /\ (currentRhythmState = "FOCUS") = (currentRhythmState' = "FOCUS")
              => lastFocusStart' = lastFocusStart ]_vars

\* the planner was told FOCUS again some time into a focus session, and the start of
\* the session is still the recorded one
C38_Witness ==
  /\ currentRhythmState = "FOCUS"
  /\ outcome.op = "onRhythmStateChange"
  /\ lastFocusStart # NoTime /\ lastFocusStart < clock


-----------------------------------------------------------------------------
(* C39 *)

\* C39: as long as updatePreferences has changed no preference, every field given to
\* the constructor has the supplied value in the config that getConfig() copies.
C39_SuppliedConfigUsed ==
  preferences = DEFAULT_PREFERENCES =>
    \A k \in DOMAIN SuppliedConfig : config[k] = SuppliedConfig[k]

=============================================================================
